---- MODULE Spec2Model ----
(***************************************************************************)
(* Server-driven MUI form pipeline: FormViewBuilder (allow-list derivation *)
(* from an update schema), the JSON-schema walker, value coercion, and the *)
(* server actions submitAction / arrayAddAction / arrayRemoveAction of the *)
(* app-ui page, which build the entity sent to the backend store.          *)
(*                                                                         *)
(* Strings that the code takes apart (field paths) are sequences of        *)
(* tokens: "$", ".", "[", "]", one token per digit, and one token per      *)
(* property name.  <<"$", ".", "a", "[", "1", "]">> is the string $.a[1].  *)
(* Object keys are such token sequences too, so that a key like "tags[1]"  *)
(* (a whole path segment used as a property name) is representable.        *)
(***************************************************************************)
EXTENDS Integers, Sequences, FiniteSets, TLC

(***************************************************************************)
(* Optional values: <<>> is JavaScript's undefined, <<x>> a present x.     *)
(***************************************************************************)
None == <<>>
Some(x) == <<x>>
IsNone(o) == Len(o) = 0
IsSome(o) == Len(o) = 1
Get(o) == o[1]

SetMin(S) == CHOOSE x \in S : \A y \in S : x <= y

SeqToSet(s) == {s[i] : i \in DOMAIN s}

(***************************************************************************)
(* String primitives on token sequences.                                   *)
(***************************************************************************)
Digits == {"0", "1", "2", "3", "4", "5", "6", "7", "8", "9"}

startsWith(s, p) == Len(s) >= Len(p) /\ SubSeq(s, 1, Len(p)) = p

substring(s, n) == SubSeq(s, n + 1, Len(s))

\* End of a match of the regular expression \[\d*\] that starts at i
\* (s[i] = "["), or 0 when there is no match at i.
BracketMatchEnd(s, i) ==
    LET ends == {j \in (i + 1)..Len(s) :
                    /\ s[j] = "]"
                    /\ \A k \in (i + 1)..(j - 1) : s[k] \in Digits}
    IN  IF s[i] = "[" /\ ends # {} THEN SetMin(ends) ELSE 0

\* Start of the first match of \[\d*\] in s, or 0.
FirstBracketMatch(s) ==
    LET starts == {i \in 1..Len(s) : BracketMatchEnd(s, i) # 0}
    IN  IF starts = {} THEN 0 ELSE SetMin(starts)

\* s.replace(/\[\d*\]/, r): the regular expression has no g flag, so only
\* the first match is replaced.
replaceFirstBracket(s, r) ==
    LET i == FirstBracketMatch(s)
    IN  IF i = 0 THEN s
        ELSE SubSeq(s, 1, i - 1) \o r \o SubSeq(s, BracketMatchEnd(s, i) + 1, Len(s))

\* s.split("."): the pieces between the dots, at least one piece.
RECURSIVE split(_)
split(s) ==
    LET dots == {i \in 1..Len(s) : s[i] = "."}
    IN  IF dots = {} THEN <<s>>
        ELSE LET i == SetMin(dots)
             IN  <<SubSeq(s, 1, i - 1)>> \o split(SubSeq(s, i + 1, Len(s)))

\* path.split(".").reverse()[0]
lastSegment(path) == LET parts == split(path) IN parts[Len(parts)]

\* A property name as an object key / path segment.
K(name) == <<name>>

\* the root marker of a JSON path
Root == <<"$">>

\* `${prefix}.${key}` and `${fieldPath}[]`
dotJoin(prefix, key) == prefix \o <<".">> \o key
arraySuffix(fieldPath) == fieldPath \o <<"[", "]">>

(***************************************************************************)
(* JSON Schema nodes.  properties is an optional list of [k, s] pairs in   *)
(* declaration order (for..in order); items is an optional node, enum an   *)
(* optional list of JSON values; type "" is a node without a type keyword. *)
(* anyOf, minLength, minimum, maximum, default, const and format are the   *)
(* further keywords a served schema can carry, each optional.              *)
(***************************************************************************)
SNode(type, properties, items, enum) ==
    [type |-> type, properties |-> properties, items |-> items, enum |-> enum,
     anyOf |-> None, minLength |-> None, minimum |-> None, maximum |-> None,
     default |-> None, const |-> None, format |-> None]

SPrim(type) == SNode(type, None, None, None)
SEnum(type, values) == SNode(type, None, None, Some(values))
SObject(props) == SNode("object", Some(props), None, None)
SObjectNoProps == SNode("object", None, None, None)
SArray(item) == SNode("array", None, Some(item), None)
Prop(name, s) == [k |-> K(name), s |-> s]
SAnyOf(branches) == [SPrim("") EXCEPT !.anyOf = Some(branches)]
SMinLength(node, n) == [node EXCEPT !.minLength = Some(n)]
SMinimum(node, n) == [node EXCEPT !.minimum = Some(n)]
SMaximum(node, n) == [node EXCEPT !.maximum = Some(n)]
SDefault(node, v) == [node EXCEPT !.default = Some(v)]
SConst(node, v) == [node EXCEPT !.const = Some(v)]
SFormat(node, f) == [node EXCEPT !.format = Some(f)]

\* props[key] of a JavaScript object: the schema under that key, or undefined.
propLookup(props, key) ==
    LET hits == {i \in DOMAIN props : props[i].k = key}
    IN  IF hits = {} THEN None ELSE Some(props[SetMin(hits)].s)

(***************************************************************************)
(* extractFieldPaths(schema, prefix): the allow-list deriver.              *)
(***************************************************************************)
RECURSIVE extractFieldPaths(_, _)
RECURSIVE extractFromProps(_, _, _)

\* extractFromProps listing a nested object's own path as well
extractFromPropsWithObjects(props, prefix, i) ==
    IF i > Len(props) THEN <<>>
    ELSE LET fieldPath == dotJoin(prefix, props[i].k)
             propSchema == props[i].s
             here ==
                 IF propSchema.type = "object"
                 THEN <<fieldPath>> \o extractFieldPaths(propSchema, fieldPath)
                 ELSE IF propSchema.type = "array"
                 THEN LET arrayItemPath == arraySuffix(fieldPath)
                          itemSchema == Get(propSchema.items)
                      IN  <<fieldPath>> \o
                          (IF itemSchema.type \in {"object", "array"}
                           THEN extractFieldPaths(itemSchema, arrayItemPath)
                           ELSE <<arrayItemPath>>)
                 ELSE <<fieldPath>>
         IN  here \o extractFromProps(props, prefix, i + 1)

\* the body of the for..in loop over schema.properties, from property i on
extractFromProps(props, prefix, i) ==
    IF i > Len(props) THEN <<>>
    ELSE LET fieldPath == dotJoin(prefix, props[i].k)
             propSchema == props[i].s
             here ==
                 IF propSchema.type = "object"
                 THEN extractFieldPaths(propSchema, fieldPath)
                 ELSE IF propSchema.type = "array"
                 THEN LET arrayItemPath == arraySuffix(fieldPath)
                          itemSchema == Get(propSchema.items)
                      IN  <<fieldPath>> \o
                          (IF itemSchema.type \in {"object", "array"}
                           THEN extractFieldPaths(itemSchema, arrayItemPath)
                           ELSE <<arrayItemPath>>)
                 ELSE <<fieldPath>>
         IN  here \o extractFromProps(props, prefix, i + 1)

extractFieldPaths(schema, prefix) ==
    IF schema.type = "object" /\ IsSome(schema.properties)
    THEN extractFromProps(Get(schema.properties), prefix, 1)
    ELSE IF schema.type = "array" /\ IsSome(schema.items)
    THEN LET fieldPath == arraySuffix(prefix)
             propSchema == Get(schema.items)
         IN  IF propSchema.type \in {"object", "array"}
             THEN extractFieldPaths(propSchema, fieldPath)
             ELSE <<fieldPath>>
    ELSE <<>>

(***************************************************************************)
(* JSON values.  An object is a function from keys to values, an array a   *)
(* sequence.  Every string is a token sequence.                            *)
(***************************************************************************)
JStr(s) == [t |-> "string", s |-> s]
JNum(n) == [t |-> "number", n |-> n]
JBool(b) == [t |-> "boolean", b |-> b]
JNull == [t |-> "null"]
JObj(f) == [t |-> "object", o |-> f]
JArr(a) == [t |-> "array", a |-> a]

EmptyObj == JObj([k \in {} |-> JNull])

\* target[key] = value on an object
objPut(f, key, value) ==
    [k \in (DOMAIN f) \cup {key} |-> IF k = key THEN value ELSE f[k]]

\* A key that is a canonical array index ("0", "1", "12", not "01", not "").
IsIndexKey(key) ==
    /\ Len(key) >= 1
    /\ \A i \in DOMAIN key : key[i] \in Digits
    /\ (Len(key) > 1 => key[1] # "0")

DigitValue(d) ==
    CASE d = "0" -> 0 [] d = "1" -> 1 [] d = "2" -> 2 [] d = "3" -> 3
      [] d = "4" -> 4 [] d = "5" -> 5 [] d = "6" -> 6 [] d = "7" -> 7
      [] d = "8" -> 8 [] d = "9" -> 9

RECURSIVE DecimalValue(_)
DecimalValue(ds) ==
    IF Len(ds) = 0 THEN 0
    ELSE 10 * DecimalValue(SubSeq(ds, 1, Len(ds) - 1)) + DigitValue(ds[Len(ds)])

\* Object.hasOwn(val, key) for a JSON value
hasOwn(val, key) ==
    \/ val.t = "object" /\ key \in DOMAIN val.o
    \/ val.t = "array" /\ IsIndexKey(key) /\ DecimalValue(key) < Len(val.a)

\* val[key], given hasOwn(val, key)
child(val, key) ==
    IF val.t = "object" THEN val.o[key] ELSE val.a[DecimalValue(key) + 1]

(***************************************************************************)
(* jsonpath-plus, as getParentOfTargetPath uses it: the path expression is *)
(* cut into steps at every "." and "[", "]" is discarded, and each step is *)
(* followed while the current value owns it.                               *)
(***************************************************************************)
RECURSIVE splitSteps(_)
splitSteps(s) ==
    LET cuts == {i \in 1..Len(s) : s[i] \in {".", "["}}
    IN  IF cuts = {} THEN <<s>>
        ELSE LET i == SetMin(cuts)
             IN  <<SubSeq(s, 1, i - 1)>> \o splitSteps(SubSeq(s, i + 1, Len(s)))

toPathArray(path) ==
    LET steps == splitSteps(SelectSeq(path, LAMBDA c : c # "]"))
    IN  IF Len(steps) > 1 /\ steps[1] = <<"$">> THEN Tail(steps) ELSE steps

\* Whether every step of steps[i..] can be followed from val.
RECURSIVE traceMatches(_, _, _)
traceMatches(val, steps, i) ==
    IF i > Len(steps) THEN TRUE
    ELSE hasOwn(val, steps[i]) /\ traceMatches(child(val, steps[i]), steps, i + 1)

\* getParentOfTargetPath(json, path): the container that holds the value the
\* path addresses, as the list of keys that leads to it from json; json
\* itself (the empty list) when the path addresses nothing.
getParentOfTargetPath(json, path) ==
    LET steps == toPathArray(path)
    IN  IF traceMatches(json, steps, 1)
        THEN SubSeq(steps, 1, Len(steps) - 1)
        ELSE <<>>

\* target[key] = value where target is an object or an array.  A key that
\* is no index becomes an expando property of the array, which
\* JSON.stringify does not serialise.
assignProp(target, key, value) ==
    IF target.t = "object" THEN JObj(objPut(target.o, key, value))
    ELSE IF IsIndexKey(key)
    THEN LET n == DecimalValue(key)
         IN  JArr([i \in 1..(IF n + 1 > Len(target.a) THEN n + 1 ELSE Len(target.a)) |->
                     IF i = n + 1 THEN value
                     ELSE IF i <= Len(target.a) THEN target.a[i] ELSE JNull])
    ELSE target

\* json with the container at loc replaced by f(container)
RECURSIVE assignAt(_, _, _, _)
assignAt(json, loc, key, value) ==
    IF Len(loc) = 0 THEN assignProp(json, key, value)
    ELSE IF json.t = "object"
    THEN JObj([json.o EXCEPT ![loc[1]] = assignAt(@, Tail(loc), key, value)])
    ELSE JArr([json.a EXCEPT ![DecimalValue(loc[1]) + 1] =
                   assignAt(@, Tail(loc), key, value)])

\* setByPath(json, path, value)
setByPath(json, path, value) ==
    LET fieldName == lastSegment(path)
        targetObj == getParentOfTargetPath(json, path)
    IN  assignAt(json, targetObj, fieldName, value)

(***************************************************************************)
(* getFieldType(schema, path): null, a {type, enum} record, or a TypeError *)
(* raised by reading a property of undefined.                              *)
(***************************************************************************)
FtNull == [k |-> "null"]
FtThrow == [k |-> "throw"]
FtType(node) ==
    [k |-> "type",
     type |-> IF node.type = "" THEN "string" ELSE node.type,
     enum |-> node.enum]

\* the for loop of getFieldType from part i on; current is an optional node
RECURSIVE walkParts(_, _, _)
walkParts(current, parts, i) ==
    IF IsNone(current) THEN FtThrow
    ELSE LET cur == Get(current)
         IN  IF i > Len(parts) THEN FtType(cur)
             ELSE IF cur.type = "object"
             THEN IF IsNone(cur.properties) THEN FtThrow
                  ELSE walkParts(propLookup(Get(cur.properties), parts[i]), parts, i + 1)
             ELSE IF cur.type = "array"
             THEN IF IsNone(cur.items) THEN FtThrow
                  ELSE IF Get(cur.items).type = "object"
                  THEN IF IsNone(Get(cur.items).properties) THEN FtThrow
                       ELSE walkParts(propLookup(Get(Get(cur.items).properties), parts[i]),
                                      parts, i + 1)
                  ELSE FtNull
             ELSE FtNull

stripRoot(path) ==
    IF startsWith(path, <<"$", ".">>) THEN substring(path, 2)
    ELSE IF startsWith(path, <<"$">>) THEN substring(path, 1)
    ELSE path

getFieldType(schema, path) ==
    LET cleanPath == replaceFirstBracket(stripRoot(path), <<>>)
        parts == split(cleanPath)
    IN  walkParts(Some(schema), parts, 1)

(***************************************************************************)
(* Number(raw), raw.trim() and parseInt(raw, 10) on token strings.         *)
(***************************************************************************)
RECURSIVE trim(_)
trim(raw) ==
    IF Len(raw) > 0 /\ raw[1] = " " THEN trim(Tail(raw))
    ELSE IF Len(raw) > 0 /\ raw[Len(raw)] = " " THEN trim(SubSeq(raw, 1, Len(raw) - 1))
    ELSE raw

AllDigits(ds) == Len(ds) > 0 /\ \A i \in DOMAIN ds : ds[i] \in Digits

NumNaN == [k |-> "nan"]
NumInf == [k |-> "inf"]
NumFinite(n) == [k |-> "num", n |-> n]

\* Number(raw) for the integer literals, "", "Infinity" and words.
toNumber(raw) ==
    LET r == trim(raw)
    IN  IF Len(r) = 0 THEN NumFinite(0)
        ELSE IF AllDigits(r) THEN NumFinite(DecimalValue(r))
        ELSE IF r[1] \in {"-", "+"} /\ AllDigits(Tail(r))
        THEN NumFinite(IF r[1] = "-" THEN 0 - DecimalValue(Tail(r)) ELSE DecimalValue(Tail(r)))
        ELSE IF r \in {<<"Infinity">>, <<"-", "Infinity">>, <<"+", "Infinity">>} THEN NumInf
        ELSE NumNaN

\* the longest prefix of ds made of digits
RECURSIVE digitPrefix(_)
digitPrefix(ds) ==
    IF Len(ds) > 0 /\ ds[1] \in Digits THEN <<ds[1]>> \o digitPrefix(Tail(ds)) ELSE <<>>

\* parseInt(raw, 10)
parseInt(raw) ==
    LET r == trim(raw)
        neg == Len(r) > 0 /\ r[1] = "-"
        body == IF Len(r) > 0 /\ r[1] \in {"-", "+"} THEN Tail(r) ELSE r
        ds == digitPrefix(body)
    IN  IF Len(ds) = 0 THEN NumNaN
        ELSE NumFinite(IF neg THEN 0 - DecimalValue(ds) ELSE DecimalValue(ds))

(***************************************************************************)
(* coerceValue(fieldType, raw)                                             *)
(***************************************************************************)
enumIncludes(enum, v) == \E i \in DOMAIN enum : enum[i] = v

\* coerceValue without the test for a blank raw string
coerceValueNoBlankTest(fieldType, raw) ==
    IF fieldType.type \in {"number", "integer"}
    THEN LET n == toNumber(raw)
         IN  IF n.k = "num" THEN JNum(n.n) ELSE JNull
    ELSE IF fieldType.type = "boolean" THEN JBool(raw = <<"true">>)
    ELSE JStr(raw)

coerceValue(fieldType, raw) ==
    IF fieldType.type \in {"number", "integer"}
    THEN IF Len(trim(raw)) = 0 THEN JNull
         ELSE LET n == toNumber(raw)
              IN  IF n.k = "num" THEN JNum(n.n) ELSE JNull
    ELSE IF fieldType.type = "boolean" THEN JBool(raw = <<"true">>)
    ELSE IF IsSome(fieldType.enum)
    THEN LET numValue == toNumber(raw)
         IN  IF numValue.k = "num" /\ enumIncludes(Get(fieldType.enum), JNum(numValue.n))
             THEN JNum(numValue.n)
             ELSE JStr(raw)
    ELSE JStr(raw)

(***************************************************************************)
(* JSON.parse(JSON.stringify(entity)): a structurally equal value that     *)
(* shares nothing with the original.  aliased tells whether a write to the *)
(* result is a write to the original.                                      *)
(***************************************************************************)
\* the copy left out: const payload = entityNonNull
deepCopyShared(entity) == [val |-> entity, aliased |-> TRUE]

deepCopy(entity) == [val |-> entity, aliased |-> FALSE]

(***************************************************************************)
(* submitAction: the allow-list filter and the forEach over the posted     *)
(* (name, value) pairs.  spec is [schema, allowFields].                    *)
(***************************************************************************)
valuePathToFieldPath(fieldName) == replaceFirstBracket(fieldName, <<"[", "]">>)

\* the allow-list ignored: always null
allowFieldSetNull(allowFields) == None

\* the length test left out: an empty list gives an empty set
allowFieldSetStrict(allowFields) == Some(SeqToSet(allowFields))

\* null (None) => allow all posted fields
allowFieldSet(allowFields) ==
    IF Len(allowFields) > 0 THEN Some(SeqToSet(allowFields)) ELSE None

\* the filter left out
isFieldAllowedAll(allowFields, fieldName) == TRUE

isFieldAllowed(allowFields, fieldName) ==
    LET allow == allowFieldSet(allowFields)
    IN  IF IsNone(allow) THEN TRUE
        ELSE valuePathToFieldPath(fieldName) \in Get(allow)

\* One call of the forEach callback: the payload afterwards and what
\* happened to the posted pair.
postedField(spec, payload, postedName, value) ==
    IF ~isFieldAllowed(spec.allowFields, postedName)
    THEN [payload |-> payload, status |-> "notAllowed"]
    ELSE LET fieldType == getFieldType(spec.schema, postedName)
         IN  IF fieldType.k = "throw" THEN [payload |-> payload, status |-> "threw"]
             ELSE IF fieldType.k = "null"
             THEN [payload |-> payload, status |-> "notInSchema"]
             ELSE [payload |-> setByPath(payload, postedName, coerceValue(fieldType, value)),
                   status |-> "set"]

\* formData.forEach(...) from pair i on; a TypeError ends the loop.  log
\* holds the status of every pair the loop reached.
RECURSIVE forEachPosted(_, _, _, _, _)
forEachPosted(spec, payload, formData, i, log) ==
    IF i > Len(formData) THEN [payload |-> payload, threw |-> FALSE, log |-> log]
    ELSE LET r == postedField(spec, payload, formData[i].name, formData[i].value)
         IN  IF r.status = "threw"
             THEN [payload |-> r.payload, threw |-> TRUE, log |-> Append(log, r.status)]
             ELSE forEachPosted(spec, r.payload, formData, i + 1, Append(log, r.status))

\* The payload submitAction builds from the snapshot, before the fetch.
buildPayload(spec, entity, formData) ==
    LET copy == deepCopy(entity)
        r == forEachPosted(spec, copy.val, formData, 1, <<>>)
    IN  [payload |-> r.payload, threw |-> r.threw, log |-> r.log,
         aliased |-> copy.aliased]

(***************************************************************************)
(* arrayAddAction: navigate (and create) the parents of the array field in *)
(* the copy, make the field an array, build a default item from the        *)
(* schema, push it.  A result is [threw, val].                             *)
(***************************************************************************)
Threw == [threw |-> TRUE, val |-> JNull]
Done(v) == [threw |-> FALSE, val |-> v]

IsContainer(v) == v.t \in {"object", "array"}

\* fieldPath.replace(/^\$\.?/, '')
stripRootAnchor(fieldPath) ==
    IF Len(fieldPath) > 0 /\ fieldPath[1] = "$"
    THEN IF Len(fieldPath) > 1 /\ fieldPath[2] = "." THEN substring(fieldPath, 2)
         ELSE substring(fieldPath, 1)
    ELSE fieldPath

\* the schema loop of arrayAddAction from part i on: the optional node
\* reached, null (None, with threw FALSE) or a TypeError
RECURSIVE schemaNodeAt(_, _, _)
schemaNodeAt(schemaNode, pathParts, i) ==
    IF i > Len(pathParts) THEN [threw |-> FALSE, node |-> schemaNode]
    ELSE IF IsNone(schemaNode) THEN [threw |-> TRUE, node |-> None]
    ELSE IF Get(schemaNode).type = "object" /\ IsSome(Get(schemaNode).properties)
    THEN schemaNodeAt(propLookup(Get(Get(schemaNode).properties), pathParts[i]),
                      pathParts, i + 1)
    ELSE [threw |-> FALSE, node |-> None]

\* the default value of one property of a new item
defaultForProp(propSchema) ==
    IF propSchema.type = "string" THEN JStr(<<>>)
    ELSE IF propSchema.type \in {"number", "integer"} THEN JNum(0)
    ELSE IF propSchema.type = "boolean" THEN JBool(FALSE)
    ELSE IF propSchema.type = "object" THEN EmptyObj
    ELSE IF propSchema.type = "array" THEN JArr(<<>>)
    ELSE JNull

\* the default item for schemaNode?.items
defaultItem(schemaNode) ==
    LET itemSchema == IF IsNone(schemaNode) THEN None ELSE Get(schemaNode).items
    IN  IF IsSome(itemSchema) /\ Get(itemSchema).type = "object"
           /\ IsSome(Get(itemSchema).properties)
        THEN LET props == Get(Get(itemSchema).properties)
             IN  JObj([k \in {props[i].k : i \in DOMAIN props} |->
                          defaultForProp(Get(propLookup(props, k)))])
        ELSE JStr(<<>>)

\* current[arrayFieldName] made an array if it is none, then push(item)
pushInto(current, arrayFieldName, item) ==
    IF ~IsContainer(current) THEN Threw
    ELSE IF current.t = "object"
    THEN LET old == IF arrayFieldName \in DOMAIN current.o
                    THEN current.o[arrayFieldName] ELSE JNull
             arr == IF old.t = "array" THEN old.a ELSE <<>>
         IN  Done(JObj(objPut(current.o, arrayFieldName, JArr(Append(arr, item)))))
    ELSE IF hasOwn(current, arrayFieldName)
    THEN LET old == child(current, arrayFieldName)
             arr == IF old.t = "array" THEN old.a ELSE <<>>
         IN  Done(assignProp(current, arrayFieldName, JArr(Append(arr, item))))
    ELSE Done(assignProp(current, arrayFieldName, JArr(<<item>>)))

\* the navigation loop from part i on, ending in the push
RECURSIVE addAlong(_, _, _, _)
addAlong(current, pathParts, i, item) ==
    IF i = Len(pathParts) THEN pushInto(current, pathParts[i], item)
    ELSE IF ~IsContainer(current) THEN Threw
    ELSE LET key == pathParts[i]
             next == IF hasOwn(current, key) THEN child(current, key) ELSE EmptyObj
             r == addAlong(next, pathParts, i + 1, item)
         IN  IF r.threw THEN Threw
             ELSE Done(assignProp(current, key, r.val))

\* The entity arrayAddAction builds for fieldPath, before the fetch.
buildArrayAdd(spec, entity, fieldPath) ==
    LET copy == deepCopy(entity)
        pathParts == split(stripRootAnchor(fieldPath))
        node == schemaNodeAt(Some(spec.schema), pathParts, 1)
        item == defaultItem(node.node)
        r == addAlong(copy.val, pathParts, 1, item)
    IN  IF r.threw \/ node.threw
        THEN [payload |-> copy.val, threw |-> TRUE, aliased |-> copy.aliased]
        ELSE [payload |-> r.val, threw |-> FALSE, aliased |-> copy.aliased]

(***************************************************************************)
(* arrayRemoveAction: field and index are cut out of the formAction        *)
(* string, the array is found through getParentOfTargetPath and spliced.   *)
(***************************************************************************)
\* formAction.match(/key([^&]*)/): the capture group, or None
matchParam(formAction, key) ==
    LET at == {i \in DOMAIN formAction : formAction[i] = key}
    IN  IF at = {} THEN None
        ELSE LET i == SetMin(at)
                 stops == {j \in (i + 1)..Len(formAction) : formAction[j] = "&"}
                 end == IF stops = {} THEN Len(formAction) ELSE SetMin(stops) - 1
             IN  Some(SubSeq(formAction, i + 1, end))

decodeURIComponent(s) ==
    [i \in DOMAIN s |->
        CASE s[i] = "%24" -> "$"
          [] s[i] = "%5B" -> "["
          [] s[i] = "%5D" -> "]"
          [] OTHER -> s[i]]

encodeURIComponent(s) ==
    [i \in DOMAIN s |->
        CASE s[i] = "$" -> "%24"
          [] s[i] = "[" -> "%5B"
          [] s[i] = "]" -> "%5D"
          [] OTHER -> s[i]]

\* the value at loc, a list of keys getParentOfTargetPath returned
RECURSIVE valueAt(_, _)
valueAt(json, loc) ==
    IF Len(loc) = 0 THEN json ELSE valueAt(child(json, loc[1]), Tail(loc))

\* json with the value at loc replaced by v
RECURSIVE replaceAt(_, _, _)
replaceAt(json, loc, v) ==
    IF Len(loc) = 0 THEN v
    ELSE assignProp(json, loc[1], replaceAt(child(json, loc[1]), Tail(loc), v))

\* arr.pop(): the last element goes, whatever the index
spliceLast(arr, index) ==
    SubSeq(arr, 1, Len(arr) - 1)

\* arr.splice(index, 1)
splice1(arr, index) ==
    LET len == Len(arr)
        start == IF index < 0 THEN (IF len + index < 0 THEN 0 ELSE len + index)
                 ELSE (IF index > len THEN len ELSE index)
    IN  [i \in 1..(IF start < len THEN len - 1 ELSE len) |->
            IF i <= start THEN arr[i] ELSE arr[i + 1]]

\* The entity arrayRemoveAction builds, before the fetch.
buildArrayRemove(entity, fieldPath, index) ==
    LET copy == deepCopy(entity)
        loc == getParentOfTargetPath(copy.val, fieldPath)
        current == valueAt(copy.val, loc)
        fieldName == lastSegment(fieldPath)
    IN  IF hasOwn(current, fieldName) /\ child(current, fieldName).t = "array"
        THEN [payload |->
                  replaceAt(copy.val, loc,
                            assignProp(current, fieldName,
                                       JArr(splice1(child(current, fieldName).a, index)))),
              threw |-> FALSE, aliased |-> copy.aliased]
        ELSE [payload |-> copy.val, threw |-> TRUE, aliased |-> copy.aliased]

(***************************************************************************)
(* FormViewServerRenderer: isEditable, getByPath and renderFields.  The    *)
(* result of renderFields is the list of form controls, each with the name *)
(* it posts and whether it is disabled.                                    *)
(***************************************************************************)
isEditable(allowFields, path) ==
    Len(allowFields) = 0 \/ \E i \in DOMAIN allowFields : allowFields[i] = path

endsWithArrayMarker(part) ==
    Len(part) >= 2 /\ SubSeq(part, Len(part) - 1, Len(part)) = <<"[", "]">>

\* current[key] of a JSON value: the optional value
readProp(current, key) ==
    IF IsContainer(current) /\ hasOwn(current, key) THEN Some(child(current, key))
    ELSE None

\* the for loop of getByPath from part i on; current is an optional value
RECURSIVE getByParts(_, _, _)
getByParts(current, parts, i) ==
    IF i > Len(parts) THEN current
    ELSE IF IsNone(current) \/ Get(current).t = "null" THEN None
    ELSE IF endsWithArrayMarker(parts[i])
    THEN LET key == SubSeq(parts[i], 1, Len(parts[i]) - 2)
         IN  IF Len(key) > 0 THEN readProp(Get(current), key) ELSE current
    ELSE getByParts(readProp(Get(current), parts[i]), parts, i + 1)

getByPath(obj, path) ==
    LET cleanPath == stripRoot(path)
    IN  IF Len(cleanPath) = 0 THEN Some(obj)
        ELSE getByParts(Some(obj), split(cleanPath), 1)

\* String(index)
RECURSIVE toDigits(_)
toDigits(n) ==
    LET d == CHOOSE c \in Digits : DigitValue(c) = n % 10
    IN  IF n < 10 THEN <<d>> ELSE toDigits(n \div 10) \o <<d>>

Control(kind, name, disabled) == [kind |-> kind, name |-> name, disabled |-> disabled]

RECURSIVE renderFields(_, _, _, _)
RECURSIVE renderProps(_, _, _, _, _)
RECURSIVE renderItems(_, _, _, _, _, _, _)

\* the items of one array, from item index on (index counts from 0)
renderItems(allowFields, entity, itemSchema, fieldPath, n, disabled, index) ==
    IF index >= n THEN <<>>
    ELSE LET itemPath == fieldPath \o <<"[">> \o toDigits(index) \o <<"]">>
         IN  <<Control("removeButton", fieldPath, disabled)>>
             \o (IF itemSchema.type = "object"
                 THEN renderFields(allowFields, entity, itemSchema, itemPath)
                 ELSE <<Control("input", itemPath, disabled)>>)
             \o renderItems(allowFields, entity, itemSchema, fieldPath, n, disabled,
                            index + 1)

\* the body of the for..in loop over schemaObj.properties, from property i on
renderProps(allowFields, entity, props, parentPath, i) ==
    IF i > Len(props) THEN <<>>
    ELSE LET fieldSchema == props[i].s
             fieldPath == dotJoin(parentPath, props[i].k)
             disabled == ~isEditable(allowFields, fieldPath)
             arrayValue == getByPath(entity, fieldPath)
             n == IF IsSome(arrayValue) /\ Get(arrayValue).t = "array"
                  THEN Len(Get(arrayValue).a) ELSE 0
             here ==
                 IF fieldSchema.type = "array"
                 THEN <<Control("addButton", fieldPath, disabled)>>
                      \o renderItems(allowFields, entity, Get(fieldSchema.items),
                                     fieldPath, n, disabled, 0)
                 ELSE IF fieldSchema.type = "object"
                 THEN renderFields(allowFields, entity, fieldSchema, fieldPath)
                 ELSE <<Control("input", fieldPath, disabled)>>
         IN  here \o renderProps(allowFields, entity, props, parentPath, i + 1)

renderFields(allowFields, entity, schemaObj, parentPath) ==
    IF IsNone(schemaObj.properties) THEN <<>>
    ELSE renderProps(allowFields, entity, Get(schemaObj.properties), parentPath, 1)

\* the controls of the page for spec and entity
FormViewServerRenderer(spec, entity) ==
    renderFields(spec.allowFields, entity, spec.schema, Root)

(***************************************************************************)
(* The fetch to the store and the SubmitResult made of its response.       *)
(***************************************************************************)
RespOk == [kind |-> "ok", status |-> "200", error |-> None]
RespReject(status, error) == [kind |-> "reject", status |-> status, error |-> error]
RespNetwork(message) == [kind |-> "network", status |-> "", error |-> message]

StoreResponses ==
    {RespOk,
     RespReject("400", Some(<<"Validation failed">>)),
     RespReject("500", None),
     RespNetwork(None)}

\* a retry after a rejection or a network error
fetchCallsRetry(resp) ==
    IF resp.kind = "ok" THEN 1 ELSE 2

\* the calls of fetch an action makes once its entity is built: one call in
\* the try block, whose rejection and whose failure both return
fetchCalls(resp) ==
    1

submitResult(resp, okMessage) ==
    IF resp.kind = "network"
    THEN [ok |-> FALSE,
          message |-> IF IsSome(resp.error) THEN Get(resp.error) ELSE <<"Network error">>]
    ELSE IF resp.kind = "reject"
    THEN [ok |-> FALSE,
          message |-> IF IsSome(resp.error) THEN Get(resp.error)
                      ELSE <<"Request failed (", resp.status, ")">>]
    ELSE [ok |-> TRUE, message |-> okMessage]

\* the SubmitResult of deleteAction
deleteResult(resp) ==
    IF resp.kind = "network"
    THEN [ok |-> FALSE,
          message |-> IF IsSome(resp.error) THEN Get(resp.error) ELSE <<"Network error">>]
    ELSE IF resp.kind = "reject"
    THEN [ok |-> FALSE,
          message |-> IF IsSome(resp.error) THEN Get(resp.error)
                      ELSE <<"Delete failed (", resp.status, ")">>]
    ELSE [ok |-> TRUE, message |-> <<"Deleted successfully">>]

(***************************************************************************)
(* The schemas, update schemas, entities and client inputs explored.       *)
(***************************************************************************)
MaxEdits == 2

Dot(p, name) == p \o <<".", name>>
Idx(p, d) == p \o <<"[", d, "]">>
Edit(name, value) == [name |-> name, value |-> value]

PersonSchema ==
    SObject(<<Prop("id", SPrim("string")),
              Prop("fullName", SPrim("string")),
              Prop("email", SPrim("string"))>>)

PersonUpdateSchemas ==
    {SObject(<<Prop("fullName", SPrim("string"))>>),
     SObject(<<Prop("id", SPrim("string")), Prop("fullName", SPrim("string"))>>),
     SObject(<<Prop("fullName", SPrim("string")), Prop("email", SPrim("string"))>>),
     SObject(<<>>),
     SObjectNoProps}

Ada ==
    JObj(K("id") :> JStr(<<"p-1">>) @@ K("fullName") :> JStr(<<"Ada">>)
         @@ K("email") :> JStr(<<"ada@x.com">>))

Bob ==
    JObj(K("id") :> JStr(<<"p-2">>) @@ K("fullName") :> JStr(<<"Bob">>)
         @@ K("email") :> JStr(<<"bob@x.com">>))

PersonEdits ==
    {Edit(Dot(Root, "fullName"), <<"Grace">>),
     Edit(Dot(Root, "email"), <<"new@x.com">>),
     Edit(Dot(Root, "id"), <<"p-9">>),
     Edit(Dot(Root, "nickname"), <<"Gracie">>)}

EmployeeSchema ==
    SObject(<<Prop("fullName", SMinLength(SPrim("string"), 1)),
              Prop("age", SMinimum(SPrim("integer"), 18)),
              Prop("role", SDefault(SEnum("string", <<JStr(<<"dev">>), JStr(<<"ops">>)>>),
                                    JStr(<<"ops">>))),
              Prop("kind", SConst(SPrim("string"), JStr(<<"person">>))),
              Prop("grade", SEnum("string", <<JStr(<<"a">>), JStr(<<"b">>)>>))>>)

AddressSchema ==
    SObject(<<Prop("street1", SPrim("string")), Prop("street2", SPrim("string"))>>)

CompanySchema ==
    SObject(<<Prop("name", SMinLength(SPrim("string"), 1)),
              Prop("address", AddressSchema),
              Prop("employees", SArray(EmployeeSchema)),
              Prop("tags", SArray(SPrim("string"))),
              Prop("meta", SObjectNoProps)>>)

CompanyUpdateSchemas ==
    {SObject(<<Prop("name", SPrim("string"))>>),
     SObject(<<Prop("name", SPrim("string")),
               Prop("address", SObject(<<Prop("street1", SPrim("string"))>>))>>),
     SObject(<<Prop("employees",
                    SArray(SObject(<<Prop("fullName", SPrim("string"))>>)))>>),
     SObject(<<Prop("name", SPrim("string")), Prop("tags", SArray(SPrim("string")))>>),
     SObject(<<Prop("meta", SObjectNoProps)>>),
     CompanySchema}

Acme ==
    JObj(K("name") :> JStr(<<"Acme">>)
         @@ K("address") :> JObj(K("street1") :> JStr(<<"1 Main St">>))
         @@ K("employees") :>
                JArr(<<JObj(K("fullName") :> JStr(<<"Ann">>) @@ K("age") :> JNum(30)),
                       JObj(K("fullName") :> JStr(<<"Ben">>) @@ K("age") :> JNum(41))>>)
         @@ K("tags") :> JArr(<<JStr(<<"x">>), JStr(<<"y">>)>>)
         @@ K("meta") :> EmptyObj)

CompanyEdits ==
    {Edit(Dot(Root, "name"), <<"Acme Ltd">>),
     Edit(Dot(Dot(Root, "address"), "street1"), <<"X">>),
     Edit(Dot(Dot(Root, "address"), "street2"), <<"Y">>),
     Edit(Dot(Idx(Dot(Root, "employees"), "0"), "fullName"), <<"Zed">>),
     Edit(Dot(Idx(Dot(Root, "employees"), "1"), "age"), <<"4", "2">>),
     Edit(Idx(Dot(Root, "tags"), "1"), <<"z">>),
     Edit(Dot(Dot(Root, "name"), "first"), <<"q">>),
     Edit(Dot(Dot(Root, "meta"), "k"), <<"v">>),
     Edit(Dot(Root, "ghost"), <<"boo">>)}

GridSchema ==
    SObject(<<Prop("title", SPrim("string")),
              Prop("a", SArray(SObject(<<Prop("b", SArray(SPrim("string")))>>)))>>)

GridUpdateSchemas ==
    {GridSchema,
     SObject(<<Prop("title", SPrim("string"))>>)}

Grid ==
    JObj(K("title") :> JStr(<<"g">>)
         @@ K("a") :>
                JArr(<<JObj(K("b") :> JArr(<<JStr(<<"u">>), JStr(<<"v">>), JStr(<<"w">>)>>)),
                       JObj(K("b") :> JArr(<<JStr(<<"u">>), JStr(<<"v">>), JStr(<<"w">>)>>))>>))

GridEdits ==
    {Edit(Dot(Root, "title"), <<"h">>),
     Edit(Idx(Dot(Idx(Dot(Root, "a"), "1"), "b"), "2"), <<"q">>),
     Edit(Idx(Dot(Idx(Dot(Root, "a"), "0"), "b"), "2"), <<"q">>)}

\* a site: a string, an integer and a number-or-null field
SiteSchema ==
    SObject(<<Prop("street1", SMinLength(SPrim("string"), 1)),
              Prop("zipcode", SPrim("integer")),
              Prop("floor", SAnyOf(<<SPrim("number"), SPrim("null")>>))>>)

SiteUpdateSchemas ==
    {SiteSchema,
     SObject(<<Prop("zipcode", SPrim("integer"))>>)}

Site ==
    JObj(K("street1") :> JStr(<<"1 Main St">>)
         @@ K("zipcode") :> JNum(94105)
         @@ K("floor") :> JNull)

\* raw values for the integer field, a numeric string for the number-or-null
\* field, and two names with malformed syntax: $.street1. and $.zipcode[x]
SiteEdits ==
    {Edit(Dot(Root, "zipcode"), <<>>),
     Edit(Dot(Root, "zipcode"), <<" ">>),
     Edit(Dot(Root, "zipcode"), <<"4", "2">>),
     Edit(Dot(Root, "zipcode"), <<"abc">>),
     Edit(Dot(Root, "zipcode"), <<"Infinity">>),
     Edit(Dot(Root, "floor"), <<"7">>),
     Edit(Dot(Root, "street1") \o <<".">>, <<"q">>),
     Edit(Dot(Root, "zipcode") \o <<"[", "x", "]">>, <<"1">>)}

\* The address-book server: the JSON Schemas of its Zod schemas (nested in
\* full), company c-1 and edits of its form.
Str(s) == JStr(<<s>>)

ServerAddressProps ==
    <<Prop("street1", SMinLength(SPrim("string"), 1)),
      Prop("street2", SAnyOf(<<SPrim("string"), SPrim("null")>>)),
      Prop("state", SEnum("string", <<Str("CA"), Str("MA"), Str("NY")>>)),
      Prop("zipcode", SMaximum(SMinimum(SPrim("integer"), 10000), 99999))>>

ServerAddressSchema == SObject(<<Prop("id", SPrim("string"))>> \o ServerAddressProps)

ServerUpdateAddressSchema == SObject(ServerAddressProps)

ServerPersonSchema ==
    SObject(<<Prop("id", SPrim("string")),
              Prop("fullName", SMinLength(SPrim("string"), 1)),
              Prop("phone", SPrim("string")),
              Prop("email", SFormat(SPrim("string"), "email")),
              Prop("address", ServerAddressSchema)>>)

ServerCompanySchema ==
    SObject(<<Prop("id", SPrim("string")),
              Prop("name", SMinLength(SPrim("string"), 1)),
              Prop("address", ServerAddressSchema),
              Prop("employees", SArray(ServerPersonSchema)),
              Prop("roles", SObjectNoProps)>>)

ServerUpdateCompanySchema ==
    SObject(<<Prop("name", SMinLength(SPrim("string"), 1)),
              Prop("address", ServerUpdateAddressSchema),
              Prop("employees", SArray(ServerPersonSchema))>>)

ServerAddress ==
    JObj(K("id") :> Str("addr-1") @@ K("street1") :> Str("1 Main St")
         @@ K("street2") :> JNull @@ K("state") :> Str("CA")
         @@ K("zipcode") :> JNum(94105))

ServerPerson ==
    JObj(K("id") :> Str("p-1") @@ K("fullName") :> Str("Ada Lovelace")
         @@ K("phone") :> Str("+1-555-0101")
         @@ K("email") :> JStr(<<"ada", "@", "example.com">>)
         @@ K("address") :> ServerAddress)

ServerCompany ==
    JObj(K("id") :> Str("c-1") @@ K("name") :> Str("Analytical Engines Inc.")
         @@ K("address") :> ServerAddress
         @@ K("employees") :> JArr(<<ServerPerson>>)
         @@ K("roles") :> JObj(K("CTO") :> Str("p-1")))

ServerCompanyEdits ==
    {Edit(Dot(Root, "name"), <<"Engines Ltd">>),
     Edit(Dot(Root, "name"), <<>>),
     Edit(Dot(Dot(Root, "address"), "street1"), <<"2 Main St">>),
     Edit(Dot(Dot(Root, "address"), "state"), <<"MA">>),
     Edit(Dot(Dot(Root, "address"), "state"), <<"TX">>),
     Edit(Dot(Dot(Root, "address"), "zipcode"), <<"1", "2", "3", "4", "5">>),
     Edit(Dot(Dot(Root, "address"), "zipcode"), <<"abc">>),
     Edit(Dot(Idx(Dot(Root, "employees"), "0"), "fullName"), <<"Grace Hopper">>),
     Edit(Dot(Idx(Dot(Root, "employees"), "0"), "email"), <<"grace", "@", "example.com">>),
     Edit(Dot(Idx(Dot(Root, "employees"), "0"), "email"), <<"grace">>)}

Schemas == {PersonSchema, CompanySchema, GridSchema, SiteSchema}

UpdateSchemasOf(sch) ==
    IF sch = PersonSchema THEN PersonUpdateSchemas
    ELSE IF sch = CompanySchema THEN CompanyUpdateSchemas
    ELSE IF sch = SiteSchema THEN SiteUpdateSchemas
    ELSE GridUpdateSchemas

EntitiesOf(sch) ==
    IF sch = PersonSchema THEN {Ada, Bob}
    ELSE IF sch = CompanySchema THEN {Acme}
    ELSE IF sch = SiteSchema THEN {Site}
    ELSE {Grid}

EditsOf(sch) ==
    IF sch = PersonSchema THEN PersonEdits
    ELSE IF sch = CompanySchema THEN CompanyEdits
    ELSE IF sch = SiteSchema THEN SiteEdits
    ELSE IF sch = ServerCompanySchema THEN ServerCompanyEdits
    ELSE GridEdits

\* the forms a client can post: up to MaxEdits (name, value) pairs
FormsOf(sch) ==
    UNION {[1..n -> EditsOf(sch)] : n \in 0..MaxEdits}

\* the delete actions a backend configures with FormViewBuilder.delete:
\* the person form has one, the other forms have none
DeleteActionsOf(sch) ==
    IF sch = PersonSchema
    THEN {[method |-> <<"DELETE">>, url |-> <<"/api/person">>]}
    ELSE {}

\* the field paths a client can send with an array button
ArrayFieldsOf(sch) ==
    IF sch = PersonSchema THEN {Dot(Root, "id")}
    ELSE IF sch = CompanySchema
    THEN {Dot(Root, "employees"), Dot(Root, "tags"), Dot(Root, "name"),
          Dot(Dot(Root, "address"), "lines"), Dot(Dot(Root, "ghost"), "list")}
    ELSE IF sch = SiteSchema THEN {Dot(Root, "floor")}
    ELSE IF sch = ServerCompanySchema THEN {Dot(Root, "employees")}
    ELSE {Dot(Root, "a"), Dot(Idx(Dot(Root, "a"), "0"), "b")}

IndexStrings == {<<"0">>, <<"1">>, <<"5">>, <<"-", "1">>, <<"x">>}

\* `?/arrayRemove&field=${encodeURIComponent(fieldPath)}&index=${index}`
removeFormAction(fieldPath, index) ==
    <<"?/arrayRemove", "&", "field=">> \o encodeURIComponent(fieldPath)
        \o <<"&", "index=">> \o index

RemoveFormActionsOf(sch) ==
    {removeFormAction(f, i) : f \in ArrayFieldsOf(sch), i \in IndexStrings}
        \cup {<<"?/arrayRemove">>}

(***************************************************************************)
(* State.                                                                  *)
(*   phase          "builder" while the backend configures the builder,    *)
(*                  "rendered" once the page holds spec and entity         *)
(*   schema         FormViewBuilder.schema                                 *)
(*   allowFields    FormViewBuilder.updateAction.allowFields               *)
(*   updateSchema   the schema last given to forUpdateCommand, if any      *)
(*   specNonNull    the spec the page fetched: [schema, allowFields]       *)
(*   entityNonNull  the entity snapshot the page fetched                   *)
(*   op, request    the server action in flight ("none" when idle) and its *)
(*                  argument                                               *)
(*   outcome        "early" (returned before the fetch), "threw" (the      *)
(*                  promise rejected), "sent" (a request reached the store)*)
(*   body           the entity sent to the store, if one was sent          *)
(*   result         the SubmitResult returned, if one was returned         *)
(*   log            what submitAction did with each posted pair            *)
(*   fetches        the number of requests the action in flight sent       *)
(*   response       what the store answered to the request, if one was sent*)
(*   titleText      FormViewBuilder.titleText                              *)
(*   updateUrl      FormViewBuilder.updateAction.url                       *)
(*   views          the FormViews the backend built and still holds        *)
(*   companies      the company the address-book server stores             *)
(*   served         the requests the server handled for the two clients    *)
(*   handlers       which handlers the props of FormShell hold             *)
(*   page           "loading" until the mount effect of FormShell has run, *)
(*                  then "mounted"                                         *)
(*   submitter      the formaction of the submitter handleSubmit last saw  *)
(*   invoked        the handlers that submit event invoked, in order       *)
(*   caught         the message of the error handleSubmit caught, if any   *)
(*   snack          the snack of SnackbarProvider, if one was set          *)
(*   sessionStorage the value under key form_success, if any               *)
(***************************************************************************)
VARIABLES phase, schema, allowFields, updateSchema, builderDeleteAction,
          specNonNull, entityNonNull, op, request, outcome, body, result, log,
          fetches, response, titleText, updateUrl, views, companies, served,
          handlers, page, submitter, invoked, caught, snack, sessionStorage

vars == <<phase, schema, allowFields, updateSchema, builderDeleteAction,
          specNonNull, entityNonNull, op, request, outcome, body, result, log,
          fetches, response, titleText, updateUrl, views, companies, served,
          handlers, page, submitter, invoked, caught, snack, sessionStorage>>

builderVars == <<schema, allowFields, updateSchema, builderDeleteAction,
                 titleText, updateUrl, views>>
pageVars == <<phase, specNonNull>>
storeVars == <<companies, served>>
shellVars == <<handlers, page, submitter, invoked, caught, snack, sessionStorage>>

\* the spec literal of buildForEntity without its updateAction
FormViewSpecBare(title, sch, updateAction, deleteDef) ==
    [title |-> title, schema |-> sch, url |-> <<"#">>, allowFields |-> <<>>,
     deleteAction |-> deleteDef]

\* the spec literal of buildForEntity
FormViewSpec(title, sch, updateAction, deleteDef) ==
    [title |-> title, schema |-> sch, url |-> updateAction.url,
     allowFields |-> updateAction.allowFields, deleteAction |-> deleteDef]

NoSpec == FormViewSpec(<<>>, SObjectNoProps, [url |-> <<"#">>, allowFields |-> <<>>], None)

\* FormShell with no handler, before the page loads, and an empty session
NoShell ==
    /\ handlers = [submitAction |-> FALSE, deleteAction |-> FALSE,
                   arrayAddAction |-> FALSE, arrayRemoveAction |-> FALSE]
    /\ page = "loading"
    /\ submitter = None
    /\ invoked = <<>>
    /\ caught = None
    /\ snack = None
    /\ sessionStorage = None

\* new FormViewBuilder(schema, title)
Init ==
    /\ phase = "builder"
    /\ schema \in Schemas
    /\ allowFields = <<>>
    /\ updateSchema = None
    /\ builderDeleteAction = None
    /\ specNonNull = NoSpec
    /\ entityNonNull = JNull
    /\ op = "none"
    /\ request = <<>>
    /\ outcome = "none"
    /\ body = None
    /\ result = None
    /\ log = <<>>
    /\ fetches = 0
    /\ response = None
    /\ titleText = <<"Form">>
    /\ updateUrl = <<"#">>
    /\ views = <<>>
    /\ companies = ServerCompany
    /\ served = <<>>
    /\ NoShell

\* FormViewBuilder.forUpdateCommand(updateSchema)
forUpdateCommand(us) ==
    /\ phase = "builder"
    /\ allowFields' = extractFieldPaths(us, Root)
    /\ updateSchema' = Some(us)
    /\ UNCHANGED <<phase, schema, builderDeleteAction, specNonNull, entityNonNull,
                   op, request, outcome, body, result, log, fetches, response,
                   titleText, updateUrl, views, storeVars, shellVars>>

\* FormViewBuilder.delete(def)
delete(def) ==
    /\ phase = "builder"
    /\ builderDeleteAction' = Some(def)
    /\ UNCHANGED <<phase, schema, allowFields, updateSchema, specNonNull, entityNonNull,
                   op, request, outcome, body, result, log, fetches, response,
                   titleText, updateUrl, views, storeVars, shellVars>>

\* FormViewBuilder.buildForEntity(entity), served to and fetched by Page
buildForEntity(entity) ==
    /\ phase = "builder"
    /\ phase' = "rendered"
    /\ specNonNull' = FormViewSpec(titleText, schema,
                                    [url |-> updateUrl, allowFields |-> allowFields],
                                    builderDeleteAction)
    /\ entityNonNull' = entity
    /\ UNCHANGED <<builderVars, op, request, outcome, body, result, log, fetches, response,
                   storeVars, shellVars>>

\* what every server action does once its entity is built: the snapshot is
\* written through only if the copy shares structure with it
Finish(name, req, built, resp, okMessage, stepLog) ==
    /\ op' = name
    /\ request' = req
    /\ log' = stepLog
    /\ entityNonNull' = IF built.aliased THEN built.payload ELSE entityNonNull
    /\ IF built.threw
       THEN /\ outcome' = "threw" /\ body' = None /\ result' = None
            /\ fetches' = 0 /\ response' = None
       ELSE /\ outcome' = "sent"
            /\ body' = Some(built.payload)
            /\ result' = Some(submitResult(resp, okMessage))
            /\ fetches' = fetchCalls(resp)
            /\ response' = Some(resp)
    /\ UNCHANGED <<builderVars, pageVars, shellVars>>

Return(name, req, message) ==
    /\ op' = name
    /\ request' = req
    /\ log' = <<>>
    /\ outcome' = "early"
    /\ body' = None
    /\ result' = Some([ok |-> FALSE, message |-> message])
    /\ fetches' = 0
    /\ response' = None
    /\ UNCHANGED <<builderVars, pageVars, shellVars, entityNonNull>>

submitAction(formData, resp) ==
    /\ phase = "rendered"
    /\ op = "none"
    /\ LET built == buildPayload(specNonNull, entityNonNull, formData)
       IN  Finish("submit", formData, built, resp, <<"Saved successfully">>, built.log)

arrayAddAction(field, resp) ==
    /\ phase = "rendered"
    /\ op = "none"
    /\ IF IsNone(field) \/ Len(Get(field)) = 0
       THEN Return("arrayAdd", field, <<"Field path not specified">>)
       ELSE Finish("arrayAdd", field,
                   buildArrayAdd(specNonNull, entityNonNull, Get(field)),
                   resp, <<"Item added successfully">>, <<>>)

arrayRemoveAction(formAction, resp) ==
    /\ phase = "rendered"
    /\ op = "none"
    /\ LET fieldPathMatch == matchParam(formAction, "field=")
           indexStrMatch == matchParam(formAction, "index=")
       IN  IF IsNone(fieldPathMatch) \/ IsNone(indexStrMatch)
           THEN Return("arrayRemove", formAction, <<"Missing data">>)
           ELSE LET fieldPath == decodeURIComponent(Get(fieldPathMatch))
                    index == parseInt(Get(indexStrMatch))
                IN  IF index.k = "nan"
                    THEN Return("arrayRemove", formAction, <<"Invalid index">>)
                    ELSE Finish("arrayRemove", formAction,
                                buildArrayRemove(entityNonNull, fieldPath, index.n),
                                resp, <<"Item removed successfully">>, <<>>)

\* deleteAction: a request without a body, or 'Delete not configured'
deleteAction(resp) ==
    /\ phase = "rendered"
    /\ op = "none"
    /\ IF IsNone(specNonNull.deleteAction)
       THEN Return("delete", <<>>, <<"Delete not configured">>)
       ELSE /\ op' = "delete"
            /\ request' = <<>>
            /\ log' = <<>>
            /\ outcome' = "sent"
            /\ body' = None
            /\ result' = Some(deleteResult(resp))
            /\ fetches' = fetchCalls(resp)
            /\ response' = Some(resp)
            /\ UNCHANGED <<builderVars, pageVars, shellVars, entityNonNull>>

\* the promise of the server action settles in FormShell's handleSubmit,
\* which leaves the page ready for the next submit event
handleSubmitSettled ==
    /\ op # "none"
    /\ op' = "none"
    /\ request' = <<>>
    /\ outcome' = "none"
    /\ body' = None
    /\ result' = None
    /\ log' = <<>>
    /\ fetches' = 0
    /\ response' = None
    /\ UNCHANGED <<builderVars, pageVars, shellVars, entityNonNull, storeVars>>

Next ==
    \/ \E us \in UpdateSchemasOf(schema) : forUpdateCommand(us)
    \/ \E e \in EntitiesOf(schema) : buildForEntity(e)
    \/ \E f \in FormsOf(schema), resp \in StoreResponses :
          submitAction(f, resp) /\ UNCHANGED storeVars
    \/ \E f \in {None} \cup {Some(p) : p \in ArrayFieldsOf(schema)},
          resp \in StoreResponses : arrayAddAction(f, resp) /\ UNCHANGED storeVars
    \/ \E fa \in RemoveFormActionsOf(schema), resp \in StoreResponses :
          arrayRemoveAction(fa, resp) /\ UNCHANGED storeVars
    \/ \E def \in DeleteActionsOf(schema) : delete(def)
    \/ \E resp \in StoreResponses : deleteAction(resp) /\ UNCHANGED storeVars
    \/ handleSubmitSettled

Spec == Init /\ [][Next]_vars

(***************************************************************************)
(* The backend with its builder.  It configures the builder and builds     *)
(* FormViews in any order, and keeps the FormViews it built.               *)
(***************************************************************************)
MaxViews == 2

\* the update schema of the unit test of builder reuse: pick({ name })
BuilderUpdateSchemas == {SObject(<<Prop("fullName", SPrim("string"))>>)}

\* the argument of FormViewBuilder.submit: method and url
SubmitDefs == {[url |-> <<"/api/person/p-1">>]}

\* FormViewBuilder.submit(def)
submit(def) ==
    /\ phase = "builder"
    /\ updateUrl' = def.url
    /\ UNCHANGED <<phase, schema, allowFields, updateSchema, builderDeleteAction,
                   titleText, views, specNonNull, entityNonNull,
                   op, request, outcome, body, result, log, fetches, response,
                   storeVars, shellVars>>

\* FormView._internal_create(spec, entity)
internalCreate(spec, entity) == [spec |-> spec, entity |-> entity]

\* FormViewBuilder.buildForEntity(entity), the FormView kept by the backend
buildForEntityKept(entity) ==
    /\ phase = "builder"
    /\ Len(views) < MaxViews
    /\ views' = Append(views,
                       internalCreate(FormViewSpec(titleText, schema,
                                                   [url |-> updateUrl,
                                                    allowFields |-> allowFields],
                                                   builderDeleteAction),
                                      entity))
    /\ UNCHANGED <<phase, schema, allowFields, updateSchema, builderDeleteAction,
                   titleText, updateUrl, specNonNull, entityNonNull,
                   op, request, outcome, body, result, log, fetches, response,
                   storeVars, shellVars>>

\* FormView.fromSchema(jsonSchema, 'Person Form')
BuilderInit ==
    /\ Init
    /\ schema = PersonSchema

BuilderNext ==
    \/ \E us \in BuilderUpdateSchemas : forUpdateCommand(us)
    \/ \E def \in SubmitDefs : submit(def)
    \/ \E def \in DeleteActionsOf(schema) : delete(def)
    \/ \E e \in EntitiesOf(schema) : buildForEntityKept(e)

BuilderSpec == BuilderInit /\ [][BuilderNext]_vars

(***************************************************************************)
(* The address-book server behind the page: POST /api/company/:id parses   *)
(* the body with UpdateCompanySchema.partial() and stores the merge.       *)
(***************************************************************************)
\* z.string().email(): a local part, "@", a domain
isEmail(s) == Len(s) = 3 /\ s[2] = "@" /\ s[1] # "@" /\ s[3] # "@"

\* schema.safeParse(v).success for the Zod schema a node stands for: every
\* declared key of an object is required, unknown keys are stripped
RECURSIVE zodAccepts(_, _)
zodAccepts(node, v) ==
    IF IsSome(node.anyOf)
    THEN \E i \in DOMAIN Get(node.anyOf) : zodAccepts(Get(node.anyOf)[i], v)
    ELSE IF node.type = "null" THEN v.t = "null"
    ELSE IF node.type = "string"
    THEN /\ v.t = "string"
         /\ IsSome(node.minLength) => Len(v.s) >= Get(node.minLength)
         /\ IsSome(node.format) => isEmail(v.s)
         /\ IsSome(node.enum) => enumIncludes(Get(node.enum), v)
    ELSE IF node.type \in {"number", "integer"}
    THEN /\ v.t = "number"
         /\ IsSome(node.minimum) => v.n >= Get(node.minimum)
         /\ IsSome(node.maximum) => v.n <= Get(node.maximum)
    ELSE IF node.type = "array"
    THEN v.t = "array" /\ \A i \in DOMAIN v.a : zodAccepts(Get(node.items), v.a[i])
    ELSE IF node.type = "object"
    THEN /\ v.t = "object"
         /\ IsSome(node.properties) =>
                \A i \in DOMAIN Get(node.properties) :
                    LET p == Get(node.properties)[i]
                    IN  p.k \in DOMAIN v.o /\ zodAccepts(p.s, v.o[p.k])
    ELSE FALSE

\* UpdateCompanySchema.partial().safeParse(req.body).success
partialAccepts(node, v) ==
    /\ v.t = "object"
    /\ \A i \in DOMAIN Get(node.properties) :
           LET p == Get(node.properties)[i]
           IN  p.k \in DOMAIN v.o => zodAccepts(p.s, v.o[p.k])

\* the response of POST /api/company/:id
postCompany(reqBody) ==
    IF partialAccepts(ServerUpdateCompanySchema, reqBody)
    THEN RespOk
    ELSE RespReject("400", Some(<<"Invalid company update">>))

\* a store that answers and writes nothing
postCompanyStoredNothing(curr, reqBody) ==
    curr

\* companies[id] after POST /api/company/:id
postCompanyStored(curr, reqBody) ==
    IF ~partialAccepts(ServerUpdateCompanySchema, reqBody) THEN curr
    ELSE JObj([k \in DOMAIN curr.o |->
                  IF k \in {K("name"), K("employees")} /\ k \in DOMAIN reqBody.o
                  THEN reqBody.o[k]
                  ELSE IF k = K("address") /\ k \in DOMAIN reqBody.o
                  THEN JObj([a \in DOMAIN curr.o[k].o |->
                                IF a # K("id") /\ a \in DOMAIN reqBody.o[k].o
                                THEN reqBody.o[k].o[a] ELSE curr.o[k].o[a]])
                  ELSE curr.o[k]])

\* the server starts; nothing is built yet
AddressBookInit ==
    /\ phase = "builder"
    /\ schema = ServerCompanySchema
    /\ allowFields = <<>>
    /\ updateSchema = None
    /\ builderDeleteAction = None
    /\ specNonNull = NoSpec
    /\ entityNonNull = JNull
    /\ op = "none"
    /\ request = <<>>
    /\ outcome = "none"
    /\ body = None
    /\ result = None
    /\ log = <<>>
    /\ fetches = 0
    /\ response = None
    /\ titleText = <<"Company">>
    /\ updateUrl = <<"/api/company/", "c-1">>
    /\ views = <<>>
    /\ companies = ServerCompany
    /\ served = <<>>
    /\ NoShell

\* GET /sdmui/company/:id: companyFormView(c), fetched and rendered by Page
companyFormView(company) ==
    /\ phase = "builder"
    /\ phase' = "rendered"
    /\ allowFields' = extractFieldPaths(ServerUpdateCompanySchema, Root)
    /\ updateSchema' = Some(ServerUpdateCompanySchema)
    /\ specNonNull' = FormViewSpec(titleText, schema,
                                    [url |-> updateUrl,
                                     allowFields |->
                                         extractFieldPaths(ServerUpdateCompanySchema, Root)],
                                    builderDeleteAction)
    /\ entityNonNull' = company
    /\ UNCHANGED <<schema, builderDeleteAction, op, request, outcome, body, result, log,
                   fetches, response, titleText, updateUrl, views, storeVars,
                   shellVars>>

\* the store handles the request of a server action, if the action sent one
serve(built) ==
    companies' = IF built.threw THEN companies
                 ELSE postCompanyStored(companies, built.payload)

AddressBookNext ==
    \/ companyFormView(ServerCompany)
    \/ \E f \in FormsOf(schema) :
          LET built == buildPayload(specNonNull, entityNonNull, f)
          IN  submitAction(f, postCompany(built.payload)) /\ serve(built)
                  /\ UNCHANGED served
    \/ \E p \in ArrayFieldsOf(schema) :
          LET built == buildArrayAdd(specNonNull, entityNonNull, p)
          IN  arrayAddAction(Some(p), postCompany(built.payload)) /\ serve(built)
                  /\ UNCHANGED served
    \/ \E p \in ArrayFieldsOf(schema), i \in {0, 1} :
          LET built == buildArrayRemove(entityNonNull, p, i)
          IN  arrayRemoveAction(removeFormAction(p, toDigits(i)),
                                postCompany(built.payload)) /\ serve(built)
                  /\ UNCHANGED served
    \/ handleSubmitSettled

AddressBookSpec == AddressBookInit /\ [][AddressBookNext]_vars

(***************************************************************************)
(* Two clients of the address-book server.  Both fetched the company form  *)
(* before either submitted, so both pages hold the same spec and the same  *)
(* snapshot; each client submits its form once, with one field changed,    *)
(* and the server handles the requests one after the other.                *)
(***************************************************************************)
MaxClients == 2

\* the forms a client submits: one changed field
ClientForms == {<<e>> : e \in ServerCompanyEdits}

\* POST /api/company/:id handles the request submitAction built and sent
clientSubmitBuilt(formData, built, resp) ==
    /\ submitAction(formData, resp)
    /\ serve(built)
    /\ served' = IF built.threw THEN served
                 ELSE Append(served, [request |-> formData, body |-> built.payload,
                                      ok |-> resp.kind = "ok"])

\* the response of the server to the body submitAction built
clientSubmitSent(formData, built) ==
    clientSubmitBuilt(formData, built, postCompany(built.payload))

\* submitAction of the next client and POST /api/company/:id for its request
clientSubmit(formData) ==
    /\ Len(served) < MaxClients
    /\ clientSubmitSent(formData, buildPayload(specNonNull, entityNonNull, formData))

TwoClientsNext ==
    \/ companyFormView(ServerCompany)
    \/ \E f \in ClientForms : clientSubmit(f)
    \/ handleSubmitSettled

TwoClientsSpec == AddressBookInit /\ [][TwoClientsNext]_vars

(***************************************************************************)
(* FormShell, the client component around the form: the mount effect, the  *)
(* submit handler and the snackbar.  Its handlers are the props it was     *)
(* given; what a handler answers is one of the results a server action of  *)
(* the page returns, or a rejection.                                       *)
(***************************************************************************)
\* <FormShell action=... deleteAction=... arrayAddAction=... arrayRemoveAction=...>
\* of Page: FormShell reads submitAction, which Page does not pass
PageProps(hasDelete) ==
    [submitAction |-> FALSE, deleteAction |-> hasDelete,
     arrayAddAction |-> TRUE, arrayRemoveAction |-> TRUE]

\* <FormShell submitAction={mockSubmitAction}>
TestProps ==
    [submitAction |-> TRUE, deleteAction |-> FALSE,
     arrayAddAction |-> FALSE, arrayRemoveAction |-> FALSE]

ShellProps == {PageProps(TRUE), PageProps(FALSE), TestProps}

\* submitter.formAction of a button without the attribute: the URL of the page
PageUrl == <<"http://localhost:3000/app-ui">>

\* the formaction of the buttons a form holds: Submit always, Delete and the
\* array buttons where the page that passes their handlers renders them
SubmittersOf(h) ==
    {PageUrl}
        \cup (IF h.deleteAction THEN {<<"?/delete">>} ELSE {})
        \cup (IF h.arrayAddAction
              THEN {<<"?/arrayAdd", "&", "field=">> \o encodeURIComponent(Dot(Root, f)) :
                        f \in {"tags", "employees"}}
              ELSE {})
        \cup (IF h.arrayRemoveAction
              THEN {removeFormAction(Dot(Root, "tags"), i) : i \in {<<"0">>, <<"1">>}}
              ELSE {})

\* formAction.includes(marker)
includes(fa, marker) == \E i \in DOMAIN fa : fa[i] = marker

\* the if/else chain of handleSubmit: the handler it awaits, "none" when it
\* takes the literal result
chosenHandler(h, fa) ==
    IF includes(fa, "?/delete") /\ h.deleteAction THEN "deleteAction"
    ELSE IF includes(fa, "?/arrayAdd") /\ h.arrayAddAction THEN "arrayAddAction"
    ELSE IF includes(fa, "?/arrayRemove") /\ h.arrayRemoveAction THEN "arrayRemoveAction"
    ELSE IF h.submitAction THEN "submitAction"
    ELSE "none"

Resolved(r) == [kind |-> "resolved", result |-> r, message |-> <<>>]
Rejected(m) == [kind |-> "rejected", result |-> [ok |-> FALSE, message |-> <<>>],
                message |-> m]

\* how the promise of a handler settles
HandlerOutcomes(name) ==
    IF name = "none"
    THEN {Resolved([ok |-> TRUE,
                    message |-> <<"Submit action not triggered (none provided)">>])}
    ELSE IF name = "deleteAction"
    THEN {Resolved(deleteResult(resp)) : resp \in StoreResponses}
             \cup {Rejected(<<"fetch failed">>)}
    ELSE {Resolved(submitResult(resp,
                                IF name = "arrayAddAction" THEN <<"Item added successfully">>
                                ELSE IF name = "arrayRemoveAction"
                                THEN <<"Item removed successfully">>
                                ELSE <<"Saved successfully">>)) : resp \in StoreResponses}
             \cup {Resolved([ok |-> TRUE, message |-> <<"Action successful">>]),
                   Rejected(<<"formData.get is not a function">>)}

\* a || b of two strings
orElse(a, b) == IF a = <<>> THEN b ELSE a

Snack(message, severity) == [open |-> TRUE, message |-> message, severity |-> severity]

\* a shell that shows one text for every success
successMessageFixed(r) ==
    <<"Saved successfully">>

\* result.message || 'Saved successfully'
successMessage(r) ==
    orElse(r.message, <<"Saved successfully">>)

\* a mount effect that shows the message and leaves the key
mountEffectKeepingKey ==
    /\ page = "loading"
    /\ page' = "mounted"
    /\ snack' = IF IsSome(sessionStorage) THEN Some(Snack(Get(sessionStorage), "success"))
                ELSE None
    /\ submitter' = None /\ invoked' = <<>> /\ caught' = None /\ result' = None
    /\ UNCHANGED <<sessionStorage, handlers, builderVars, pageVars, storeVars, entityNonNull,
                   op, request, outcome, body, log, fetches, response>>

\* the page loads and the effect of FormShellInner runs
mountEffect ==
    /\ page = "loading"
    /\ page' = "mounted"
    /\ snack' = IF IsSome(sessionStorage) THEN Some(Snack(Get(sessionStorage), "success"))
                ELSE None
    /\ sessionStorage' = None
    /\ submitter' = None /\ invoked' = <<>> /\ caught' = None /\ result' = None
    /\ UNCHANGED <<handlers, builderVars, pageVars, storeVars, entityNonNull,
                   op, request, outcome, body, log, fetches, response>>

\* a shell that takes every result for a success
succeededAlways(r) ==
    TRUE

\* if (result.ok)
succeeded(r) ==
    r.ok

\* handleSubmit for a click on the button with formaction fa, the handler it
\* awaits settling as out
handleSubmit(fa, out) ==
    /\ page = "mounted"
    /\ LET chosen == chosenHandler(handlers, fa)
       IN  /\ out \in HandlerOutcomes(chosen)
           /\ invoked' = IF chosen = "none" THEN <<>> ELSE <<chosen>>
    /\ submitter' = Some(fa)
    /\ IF out.kind = "rejected"
       THEN /\ result' = None
            /\ caught' = Some(out.message)
            /\ snack' = Some(Snack(orElse(out.message, <<"Unexpected error">>), "error"))
            /\ UNCHANGED <<sessionStorage, page>>
       ELSE /\ result' = Some(out.result)
            /\ caught' = None
            /\ IF succeeded(out.result)
               THEN /\ snack' = Some(Snack(successMessage(out.result), "success"))
                    /\ sessionStorage' = Some(successMessage(out.result))
                    /\ page' = "loading"
               ELSE /\ snack' = Some(Snack(orElse(out.result.message, <<"Failed to submit">>),
                                           "error"))
                    /\ UNCHANGED <<sessionStorage, page>>
    /\ UNCHANGED <<handlers, builderVars, pageVars, storeVars, entityNonNull,
                   op, request, outcome, body, log, fetches, response>>

\* the user loads the page again
reload ==
    /\ page = "mounted"
    /\ page' = "loading"
    /\ snack' = None
    /\ submitter' = None /\ invoked' = <<>> /\ caught' = None /\ result' = None
    /\ UNCHANGED <<sessionStorage, handlers, builderVars, pageVars, storeVars, entityNonNull,
                   op, request, outcome, body, log, fetches, response>>

\* onClose of the Snackbar, by the user or after autoHideDuration
onClose ==
    /\ IsSome(snack) /\ Get(snack).open
    /\ snack' = Some([Get(snack) EXCEPT !.open = FALSE])
    /\ UNCHANGED <<handlers, page, submitter, invoked, caught, sessionStorage, result,
                   builderVars, pageVars, storeVars, entityNonNull,
                   op, request, outcome, body, log, fetches, response>>

\* a page with a FormShell, about to load in a fresh session
FormShellInit ==
    /\ phase = "rendered"
    /\ schema = PersonSchema
    /\ allowFields = <<>>
    /\ updateSchema = None
    /\ builderDeleteAction = None
    /\ specNonNull = NoSpec
    /\ entityNonNull = JNull
    /\ op = "none"
    /\ request = <<>>
    /\ outcome = "none"
    /\ body = None
    /\ result = None
    /\ log = <<>>
    /\ fetches = 0
    /\ response = None
    /\ titleText = <<"Form">>
    /\ updateUrl = <<"#">>
    /\ views = <<>>
    /\ companies = ServerCompany
    /\ served = <<>>
    /\ handlers \in ShellProps
    /\ page = "loading"
    /\ submitter = None
    /\ invoked = <<>>
    /\ caught = None
    /\ snack = None
    /\ sessionStorage = None

FormShellNext ==
    \/ mountEffect
    \/ \E fa \in SubmittersOf(handlers),
          out \in UNION {HandlerOutcomes(n) : n \in {"none", "submitAction", "deleteAction",
                                                     "arrayAddAction", "arrayRemoveAction"}} :
          handleSubmit(fa, out)
    \/ reload
    \/ onClose

FormShellSpec == FormShellInit /\ [][FormShellNext]_vars

(***************************************************************************)
(* Vocabulary of the claims, defined apart from the code's operators.      *)
(***************************************************************************)
\* the schema path of a value path: every [digits] becomes []
RECURSIVE SchemaPathOf(_)
SchemaPathOf(valuePath) ==
    IF Len(valuePath) = 0 THEN <<>>
    ELSE IF BracketMatchEnd(valuePath, 1) # 0
    THEN <<"[", "]">>
         \o SchemaPathOf(SubSeq(valuePath, BracketMatchEnd(valuePath, 1) + 1, Len(valuePath)))
    ELSE <<valuePath[1]>> \o SchemaPathOf(Tail(valuePath))

HasConcreteIndex(path) ==
    \E i \in 1..(Len(path) - 1) : path[i] = "[" /\ path[i + 1] \in Digits

\* every node below the root of a schema, in declaration order, with its
\* path: [path, node, isProperty]
RECURSIVE SchemaNodes(_, _)
RECURSIVE PropNodes(_, _, _)
PropNodes(props, prefix, i) ==
    IF i > Len(props) THEN <<>>
    ELSE <<[path |-> dotJoin(prefix, props[i].k), node |-> props[i].s, isProperty |-> TRUE]>>
         \o SchemaNodes(props[i].s, dotJoin(prefix, props[i].k))
         \o PropNodes(props, prefix, i + 1)

SchemaNodes(sch, prefix) ==
    IF sch.type = "object" /\ IsSome(sch.properties)
    THEN PropNodes(Get(sch.properties), prefix, 1)
    ELSE IF sch.type = "array" /\ IsSome(sch.items)
    THEN <<[path |-> arraySuffix(prefix), node |-> Get(sch.items), isProperty |-> FALSE]>>
         \o SchemaNodes(Get(sch.items), arraySuffix(prefix))
    ELSE <<>>

PathsOf(nodes) == [i \in DOMAIN nodes |-> nodes[i].path]

IsLeafNode(n) == n.node.type \notin {"object", "array"}
IsArrayProperty(n) == n.node.type = "array" /\ n.isProperty

\* the paths an update schema includes
IncludedPaths(us) == SeqToSet(PathsOf(SchemaNodes(us, Root)))

IndexCount(path) ==
    Cardinality({i \in 1..(Len(path) - 1) : path[i] = "[" /\ path[i + 1] \in Digits})

NoDuplicates(seq) == \A i, j \in DOMAIN seq : seq[i] = seq[j] => i = j

\* v with the value under the keys of steps replaced by null
RECURSIVE Blank(_, _)
Blank(v, steps) ==
    IF Len(steps) = 0 THEN v
    ELSE IF v.t = "object"
    THEN IF Len(steps) = 1 THEN JObj(objPut(v.o, steps[1], JNull))
         ELSE IF steps[1] \in DOMAIN v.o
         THEN JObj(objPut(v.o, steps[1], Blank(v.o[steps[1]], Tail(steps))))
         ELSE v
    ELSE IF v.t = "array" /\ hasOwn(v, steps[1])
    THEN JArr([v.a EXCEPT ![DecimalValue(steps[1]) + 1] =
                   IF Len(steps) = 1 THEN JNull ELSE Blank(@, Tail(steps))])
    ELSE v

SameExceptAt(a, b, path) == Blank(a, toPathArray(path)) = Blank(b, toPathArray(path))

Rendered == phase = "rendered"
AllowSet == SeqToSet(specNonNull.allowFields)
Controls == SeqToSet(FormViewServerRenderer(specNonNull, entityNonNull))
PostedNames == {request[i].name : i \in DOMAIN request}
PostedAllowed(e) == SchemaPathOf(e.name) \in AllowSet
PostedDescribed(e) == getFieldType(specNonNull.schema, e.name).k = "type"

\* the value last posted for name
LastPosted(name) ==
    LET at == {i \in DOMAIN request : request[i].name = name}
    IN  request[CHOOSE i \in at : \A j \in at : j <= i].value

(***************************************************************************)
(* C1.  With a non-empty allowFields, submitAction lets a posted pair      *)
(* change the outgoing entity only if the schema path of its name is in    *)
(* allowFields; every other pair is dropped without an error, and the      *)
(* outcome is the one of the form without those pairs.                     *)
(***************************************************************************)
C1_SubmitHonoursAllowList ==
    (op = "submit" /\ Len(specNonNull.allowFields) > 0) =>
        LET kept == SelectSeq(request, PostedAllowed)
            only == buildPayload(specNonNull, entityNonNull, kept)
        IN  /\ \A i \in DOMAIN log : log[i] = "set" => PostedAllowed(request[i])
            /\ \A i \in DOMAIN log : ~PostedAllowed(request[i]) => log[i] = "notAllowed"
            /\ (outcome = "threw") = only.threw
            /\ outcome = "sent" => body = Some(only.payload)
            /\ Len(kept) = 0 => outcome = "sent" /\ body = Some(entityNonNull)

C1_Witness ==
    /\ op = "submit" /\ Len(specNonNull.allowFields) > 0
    /\ outcome = "sent" /\ body # Some(entityNonNull)
    /\ \E i, j \in DOMAIN log : log[i] = "set" /\ log[j] = "notAllowed"

(***************************************************************************)
(* C2.  With a non-empty allowFields, the entity arrayAddAction or         *)
(* arrayRemoveAction sends differs from the snapshot only at an array      *)
(* whose schema path is in allowFields.                                    *)
(***************************************************************************)
C2_ArrayActionsHonourAllowList ==
    (op \in {"arrayAdd", "arrayRemove"} /\ outcome = "sent"
        /\ Len(specNonNull.allowFields) > 0) =>
        \/ Get(body) = entityNonNull
        \/ \E p \in AllowSet :
              /\ getFieldType(specNonNull.schema, p).k = "type"
              /\ getFieldType(specNonNull.schema, p).type = "array"
              /\ SameExceptAt(Get(body), entityNonNull, p)

(***************************************************************************)
(* C3.  Person entity, update schema that declares fullName and omits      *)
(* email: a form that edits $.fullName and $.email is sent with the new    *)
(* fullName and with email and id as in the snapshot.                      *)
(***************************************************************************)
C3_Scenario ==
    /\ op = "submit"
    /\ specNonNull.schema = PersonSchema
    /\ IsSome(updateSchema) /\ IsSome(Get(updateSchema).properties)
    /\ IsSome(propLookup(Get(Get(updateSchema).properties), K("fullName")))
    /\ IsNone(propLookup(Get(Get(updateSchema).properties), K("email")))
    /\ PostedNames = {Dot(Root, "fullName"), Dot(Root, "email")}

C3_EmailKeptFullNameWritten ==
    C3_Scenario =>
        /\ outcome = "sent"
        /\ Get(body) = JObj([entityNonNull.o EXCEPT
                                ![K("fullName")] = JStr(LastPosted(Dot(Root, "fullName")))])

C3_Witness ==
    /\ C3_Scenario
    /\ entityNonNull = Ada
    /\ Get(body) = JObj(K("id") :> JStr(<<"p-1">>) @@ K("fullName") :> JStr(<<"Grace">>)
                        @@ K("email") :> JStr(<<"ada@x.com">>))

(***************************************************************************)
(* C4.  With allowFields = [] the renderer disables no control, the        *)
(* filter drops no posted pair, every pair the schema walker resolves is   *)
(* written, and the edits {$.name, $.address.street1} both reach the       *)
(* outgoing entity.                                                        *)
(***************************************************************************)
C4_Scenario ==
    /\ op = "submit"
    /\ Len(specNonNull.allowFields) = 0
    /\ specNonNull.schema = CompanySchema
    /\ PostedNames = {Dot(Root, "name"), Dot(Dot(Root, "address"), "street1")}

C5_EditableOnlyIfInUpdateSchema ==
    (Rendered /\ IsSome(updateSchema)) =>
        /\ \A c \in Controls :
              ~c.disabled => SchemaPathOf(c.name) \in IncludedPaths(Get(updateSchema))
        /\ \A e \in EditsOf(specNonNull.schema) :
              isFieldAllowed(specNonNull.allowFields, e.name)
                  => SchemaPathOf(e.name) \in IncludedPaths(Get(updateSchema))

(***************************************************************************)
(* C6.  valuePathToFieldPath leaves no concrete index in its result, is    *)
(* idempotent, and maps value paths that differ only in indices to the     *)
(* same schema path.                                                       *)
(***************************************************************************)
C6_ToSchemaPathCollapsesEveryIndex ==
    op = "submit" =>
        \A e \in SeqToSet(request) :
            /\ ~HasConcreteIndex(valuePathToFieldPath(e.name))
            /\ valuePathToFieldPath(valuePathToFieldPath(e.name)) = valuePathToFieldPath(e.name)
            /\ \A f \in SeqToSet(request) :
                  SchemaPathOf(f.name) = SchemaPathOf(e.name)
                      => valuePathToFieldPath(f.name) = valuePathToFieldPath(e.name)

(***************************************************************************)
(* C7.  Every path of the allow-list derived from an update schema that is *)
(* a sub-tree of the full schema is resolved by getFieldType against the   *)
(* full schema: a type, not null, not a throw.                             *)
(***************************************************************************)
C7_DerivedPathsResolve ==
    (Rendered /\ IsSome(updateSchema)) =>
        \A p \in AllowSet : getFieldType(specNonNull.schema, p).k = "type"

(***************************************************************************)
(* C8 as stated.  forUpdateCommand sets allowFields to exactly the paths   *)
(* of the update schema's leaf properties, in declaration order, each      *)
(* once.                                                                   *)
(***************************************************************************)
C8_AllowFieldsAreLeafPaths ==
    IsSome(updateSchema) =>
        /\ allowFields = PathsOf(SelectSeq(SchemaNodes(Get(updateSchema), Root), IsLeafNode))
        /\ NoDuplicates(allowFields)

(***************************************************************************)
(* C8 as amended.  forUpdateCommand sets allowFields to exactly the paths, *)
(* in declaration order and each once, of the update schema's primitive    *)
(* leaves and of its array-typed properties (an array property's own path  *)
(* comes right before the paths of its items, which carry the [] marker);  *)
(* the path of a nested object is not listed; buildForEntity hands the     *)
(* same list to the spec.                                                  *)
(***************************************************************************)
IsListedNode(n) == IsLeafNode(n) \/ IsArrayProperty(n)

C8_AllowFieldsAreLeafAndArrayPaths ==
    IsSome(updateSchema) =>
        /\ allowFields = PathsOf(SelectSeq(SchemaNodes(Get(updateSchema), Root), IsListedNode))
        /\ NoDuplicates(allowFields)
        /\ \A i \in DOMAIN allowFields : startsWith(allowFields[i], Root)
        /\ Rendered => specNonNull.allowFields = allowFields

C8_Witness ==
    /\ Rendered
    /\ IsSome(updateSchema)
    /\ \E i \in DOMAIN allowFields : allowFields[i] = Dot(Dot(Root, "address"), "street1")
    /\ \E i \in DOMAIN allowFields : allowFields[i] = Dot(Root, "tags")
    /\ \E i \in DOMAIN allowFields : endsWithArrayMarker(allowFields[i])

(***************************************************************************)
(* C9.  No server action changes the entity snapshot of the page: while    *)
(* the page is rendered the snapshot stays what it was at render time.     *)
(***************************************************************************)
C9_SnapshotNeverMutated ==
    [][Rendered => entityNonNull' = entityNonNull]_vars

C9_Witness ==
    /\ op \in {"submit", "arrayAdd", "arrayRemove"}
    /\ outcome = "sent"
    /\ Get(body) # entityNonNull

(***************************************************************************)
(* C10.  A posted field the schema does not describe is dropped alone:     *)
(* submitAction never throws, reaches every posted pair, and sends the     *)
(* payload built from the remaining pairs (forms whose names carry at most *)
(* one index, the one the walker strips).                                  *)
(***************************************************************************)
C10_UndescribedFieldsDroppedAlone ==
    (op = "submit" /\ \A e \in SeqToSet(request) : IndexCount(e.name) <= 1) =>
        /\ outcome = "sent"
        /\ IsSome(result)
        /\ Len(log) = Len(request)
        /\ \A i \in DOMAIN log : log[i] # "threw"

(***************************************************************************)
(* Vocabulary of the array actions.                                        *)
(***************************************************************************)
\* the field path an array action was asked to work on, if it names one
ArrayField ==
    IF op = "arrayAdd" THEN request
    ELSE IF op = "arrayRemove" /\ IsSome(matchParam(request, "field="))
    THEN Some(decodeURIComponent(Get(matchParam(request, "field="))))
    ELSE None

\* the value reached from v by the keys of steps, if every key exists
RECURSIVE Follow(_, _)
Follow(v, steps) ==
    IF Len(steps) = 0 THEN Some(v)
    ELSE IF hasOwn(v, steps[1]) THEN Follow(child(v, steps[1]), Tail(steps))
    ELSE None

AddressesArray(entity, path) ==
    LET x == Follow(entity, toPathArray(path))
    IN  IsSome(x) /\ Get(x).t = "array"

SchemaArrayAt(sch, path) ==
    LET nodes == SchemaNodes(sch, Root)
    IN  \E i \in DOMAIN nodes :
            nodes[i].path = SchemaPathOf(path) /\ nodes[i].node.type = "array"

(***************************************************************************)
(* C11.  deleteAction, arrayAddAction and arrayRemoveAction never throw    *)
(* and always return a result; when the field path addresses no existing   *)
(* array of the entity, or none the schema describes, the result is a      *)
(* failure and nothing is sent to the store.                               *)
(***************************************************************************)
C11_ArrayActionsReturnTypedResult ==
    op \in {"delete", "arrayAdd", "arrayRemove"} =>
        /\ outcome # "threw"
        /\ IsSome(result)
        /\ (/\ IsSome(ArrayField)
            /\ ~(/\ AddressesArray(entityNonNull, Get(ArrayField))
                 /\ SchemaArrayAt(specNonNull.schema, Get(ArrayField))))
               => outcome = "early" /\ ~Get(result).ok /\ body = None

(***************************************************************************)
(* Path syntax: $ followed by .name and [digits] segments.                 *)
(***************************************************************************)
IsNameToken(tok) == tok \notin ({".", "[", "]", "$", " "} \cup Digits)

RECURSIVE WellFormedSegments(_)
WellFormedSegments(t) ==
    IF Len(t) = 0 THEN TRUE
    ELSE IF t[1] = "."
    THEN Len(t) >= 2 /\ IsNameToken(t[2]) /\ WellFormedSegments(SubSeq(t, 3, Len(t)))
    ELSE IF t[1] = "["
    THEN BracketMatchEnd(t, 1) >= 3
         /\ WellFormedSegments(SubSeq(t, BracketMatchEnd(t, 1) + 1, Len(t)))
    ELSE FALSE

WellFormedPath(p) == Len(p) >= 1 /\ p[1] = "$" /\ WellFormedSegments(Tail(p))

(***************************************************************************)
(* C12.  A posted name with malformed path syntax (an empty segment, an    *)
(* index that is not all digits) makes submitAction return a validation    *)
(* failure before anything is written or sent.                             *)
(***************************************************************************)
C12_MalformedNamesRejected ==
    (op = "submit" /\ \E e \in SeqToSet(request) : ~WellFormedPath(e.name)) =>
        /\ outcome = "early"
        /\ IsSome(result) /\ ~Get(result).ok
        /\ body = None

(***************************************************************************)
(* Vocabulary of coercion.                                                 *)
(***************************************************************************)
\* the schema node the schema declares for a value path, if any
NodeAt(sch, path) ==
    LET nodes == SchemaNodes(sch, Root)
        hits == {i \in DOMAIN nodes : nodes[i].path = SchemaPathOf(path)}
    IN  IF hits = {} THEN None ELSE Some(nodes[SetMin(hits)].node)

\* the first branch of a union whose kind is not null, if any
FirstNonNullBranch(node) ==
    LET branches == Get(node.anyOf)
        hits == {i \in DOMAIN branches : branches[i].type # "null"}
    IN  IF hits = {} THEN None ELSE Some(branches[SetMin(hits)])

IsNumberOrNull(node) ==
    /\ IsSome(node.anyOf)
    /\ IsSome(FirstNonNullBranch(node))
    /\ Get(FirstNonNullBranch(node)).type \in {"number", "integer"}

IsNumberNode(node) == node.type \in {"number", "integer"}

\* the pair at position i of the form is the last one posted under its name
IsLastPosted(i) == \A j \in DOMAIN request : request[j].name = request[i].name => j <= i

\* what the outgoing entity holds where the value path points
Outgoing(path) == Follow(Get(body), toPathArray(path))

IsBlank(raw) == \A i \in DOMAIN raw : raw[i] = " "

\* the number a raw string denotes, if it is a decimal integer literal
\* (surrounded by blanks or not)
Unpadded(raw) == SelectSeq(raw, LAMBDA c : c # " ")
IsNumeral(raw) ==
    \/ AllDigits(Unpadded(raw))
    \/ Len(Unpadded(raw)) > 1 /\ Unpadded(raw)[1] \in {"-", "+"} /\ AllDigits(Tail(Unpadded(raw)))
NumeralValue(raw) ==
    IF Unpadded(raw)[1] = "-" THEN 0 - DecimalValue(Tail(Unpadded(raw)))
    ELSE IF Unpadded(raw)[1] = "+" THEN DecimalValue(Tail(Unpadded(raw)))
    ELSE DecimalValue(Unpadded(raw))

ExpectedNumber(raw) ==
    IF IsBlank(raw) THEN JNull
    ELSE IF IsNumeral(raw) THEN JNum(NumeralValue(raw))
    ELSE JNull

(***************************************************************************)
(* C13.  A numeric raw string posted for a field whose schema is the union *)
(* number-or-null is stored in the outgoing entity as a number.            *)
(***************************************************************************)
C13_UnionCoercedByFirstNonNullBranch ==
    (op = "submit" /\ outcome = "sent") =>
        \A i \in DOMAIN request :
            (/\ IsSome(NodeAt(specNonNull.schema, request[i].name))
             /\ IsNumberOrNull(Get(NodeAt(specNonNull.schema, request[i].name)))
             /\ IsNumeral(request[i].value)
             /\ IsLastPosted(i)
             /\ isFieldAllowed(specNonNull.allowFields, request[i].name))
                => Outgoing(request[i].name) = Some(JNum(NumeralValue(request[i].value)))

(***************************************************************************)
(* C14.  coerceValue on a number or integer node never throws and gives    *)
(* null for a blank raw string, the number for a raw string that denotes a *)
(* finite number, and null for every other raw string; that value is what  *)
(* the outgoing entity holds for the field.                                *)
(***************************************************************************)
C14_NumberCoercionTotal ==
    op = "submit" =>
        \A i \in DOMAIN request :
            LET node == NodeAt(specNonNull.schema, request[i].name)
                raw == request[i].value
            IN  (IsSome(node) /\ IsNumberNode(Get(node))) =>
                    /\ coerceValue(Get(node), raw) = ExpectedNumber(raw)
                    /\ i \in DOMAIN log => log[i] \in {"set", "notAllowed"}
                    /\ (/\ outcome = "sent"
                        /\ IsLastPosted(i)
                        /\ isFieldAllowed(specNonNull.allowFields, request[i].name)
                        /\ IsSome(Follow(entityNonNull, toPathArray(request[i].name))))
                           => Outgoing(request[i].name) = Some(ExpectedNumber(raw))

C14_Witness ==
    /\ op = "submit" /\ outcome = "sent"
    /\ Len(request) = 2
    /\ request[1] = Edit(Dot(Root, "zipcode"), <<"4", "2">>)
    /\ request[2] = Edit(Dot(Root, "zipcode"), <<"Infinity">>)
    /\ log = <<"set", "set">>
    /\ Get(body).o[K("zipcode")] = JNull

(***************************************************************************)
(* C15.  A form of one accepted edit leaves the outgoing entity equal to   *)
(* the snapshot except at the value path of the edit, where it holds the   *)
(* coerced value (also when the snapshot holds nothing there yet).         *)
(***************************************************************************)
C15_EditWrittenAtItsValuePath ==
    (op = "submit" /\ outcome = "sent" /\ Len(request) = 1 /\ log = <<"set">>) =>
        /\ IsSome(NodeAt(specNonNull.schema, request[1].name))
        /\ Outgoing(request[1].name)
               = Some(coerceValue(Get(NodeAt(specNonNull.schema, request[1].name)),
                                  request[1].value))
        /\ SameExceptAt(Get(body), entityNonNull, request[1].name)

(***************************************************************************)
(* C16.  arrayAddAction on an array field of the schema sends an entity    *)
(* whose array at that field is the snapshot's array (the empty array if   *)
(* the snapshot holds none) with exactly one element appended, and which   *)
(* equals the snapshot everywhere else.                                    *)
(***************************************************************************)
SnapshotArray(path) ==
    IF AddressesArray(entityNonNull, path)
    THEN Get(Follow(entityNonNull, toPathArray(path))).a
    ELSE <<>>

C16_ArrayAddAppendsOneElement ==
    (op = "arrayAdd" /\ IsSome(request)
        /\ SchemaArrayAt(specNonNull.schema, Get(request))) =>
        /\ outcome = "sent"
        /\ IsSome(Outgoing(Get(request)))
        /\ Get(Outgoing(Get(request))).t = "array"
        /\ Len(Get(Outgoing(Get(request))).a) = Len(SnapshotArray(Get(request))) + 1
        /\ SubSeq(Get(Outgoing(Get(request))).a, 1, Len(SnapshotArray(Get(request))))
               = SnapshotArray(Get(request))
        /\ SameExceptAt(Get(body), entityNonNull, Get(request))

(***************************************************************************)
(* Vocabulary of new array elements.                                       *)
(***************************************************************************)
\* the element an array action's outgoing entity holds last in the array
NewElement ==
    LET arr == Get(Outgoing(Get(ArrayField))).a
    IN  arr[Len(arr)]

\* the item schema of the array field the action worked on
ItemSchema == Get(Get(NodeAt(specNonNull.schema, Get(ArrayField))).items)

\* the properties of the item schema, none if it is no object
ItemProps ==
    IF ItemSchema.type = "object" /\ IsSome(ItemSchema.properties)
    THEN Get(ItemSchema.properties)
    ELSE <<>>

AddedToSchemaArray ==
    /\ op = "arrayAdd" /\ outcome = "sent" /\ IsSome(request)
    /\ SchemaArrayAt(specNonNull.schema, Get(request))

(***************************************************************************)
(* C17.  Adding an employee to company c-1 of the address-book server: the *)
(* appended element passes the store's schema for employees, the action    *)
(* returns 'Item added successfully', and the store then holds one         *)
(* employee more.                                                          *)
(***************************************************************************)
C17_AddEmployeeAcceptedByStore ==
    (op = "arrayAdd" /\ request = Some(Dot(Root, "employees"))) =>
        /\ outcome = "sent"
        /\ zodAccepts(ServerPersonSchema, NewElement)
        /\ result = Some([ok |-> TRUE, message |-> <<"Item added successfully">>])
        /\ Len(postCompanyStored(entityNonNull, Get(body)).o[K("employees")].a)
               = Len(entityNonNull.o[K("employees")].a) + 1

(***************************************************************************)
(* C18.  The element arrayAddAction appends holds a non-empty string for   *)
(* every string property of the item schema that has minLength >= 1.       *)
(***************************************************************************)
C18_PlaceholderRespectsMinLength ==
    AddedToSchemaArray =>
        \A i \in DOMAIN ItemProps :
            (/\ ItemProps[i].s.type = "string"
             /\ IsSome(ItemProps[i].s.minLength)
             /\ Get(ItemProps[i].s.minLength) >= 1)
                => /\ ItemProps[i].k \in DOMAIN NewElement.o
                   /\ NewElement.o[ItemProps[i].k].t = "string"
                   /\ Len(NewElement.o[ItemProps[i].k].s) >= 1

(***************************************************************************)
(* C19.  Each property of the element arrayAddAction appends holds the     *)
(* schema's default if one is declared, else its const, else the first     *)
(* value of its non-empty enum; a number or integer property with none of  *)
(* these holds the declared minimum, else 0.                               *)
(***************************************************************************)
HasDeclaredValue(node) ==
    \/ IsSome(node.default)
    \/ IsSome(node.const)
    \/ IsSome(node.enum) /\ Len(Get(node.enum)) > 0

DeclaredValue(node) ==
    IF IsSome(node.default) THEN Get(node.default)
    ELSE IF IsSome(node.const) THEN Get(node.const)
    ELSE Get(node.enum)[1]

C19_DefaultConstEnumBeforePlaceholder ==
    AddedToSchemaArray =>
        \A i \in DOMAIN ItemProps :
            LET node == ItemProps[i].s
                value == NewElement.o[ItemProps[i].k]
            IN  /\ HasDeclaredValue(node) => value = DeclaredValue(node)
                /\ (~HasDeclaredValue(node) /\ IsNumberNode(node)) =>
                       value = JNum(IF IsSome(node.minimum) THEN Get(node.minimum) ELSE 0)

(***************************************************************************)
(* C20.  arrayRemoveAction with an index outside the bounds of the array   *)
(* (index >= length, or negative) returns a failure, sends nothing to the  *)
(* store and removes no element.                                           *)
(***************************************************************************)
RemoveIndex == Get(matchParam(request, "index="))

C20_RemoveOutOfRangeFails ==
    (/\ op = "arrayRemove"
     /\ IsSome(ArrayField) /\ IsSome(matchParam(request, "index="))
     /\ AddressesArray(entityNonNull, Get(ArrayField))
     /\ IsNumeral(RemoveIndex)
     /\ \/ NumeralValue(RemoveIndex) < 0
        \/ NumeralValue(RemoveIndex) >= Len(SnapshotArray(Get(ArrayField))))
        => /\ outcome = "early"
           /\ IsSome(result) /\ ~Get(result).ok
           /\ body = None

(***************************************************************************)
(* C21.  arrayRemoveAction with an in-range index i on an array of length  *)
(* n of the entity sends an entity whose array at that field has length    *)
(* n-1 and is the snapshot's array without element i, the other elements   *)
(* in their order, and which equals the snapshot everywhere else.          *)
(***************************************************************************)
RemoveInRange ==
    /\ op = "arrayRemove"
    /\ IsSome(ArrayField) /\ IsSome(matchParam(request, "index="))
    /\ AddressesArray(entityNonNull, Get(ArrayField))
    /\ IsNumeral(RemoveIndex)
    /\ NumeralValue(RemoveIndex) >= 0
    /\ NumeralValue(RemoveIndex) < Len(SnapshotArray(Get(ArrayField)))

C21_RemoveInRangeRemovesElement ==
    RemoveInRange =>
        LET old == SnapshotArray(Get(ArrayField))
            i == NumeralValue(RemoveIndex) + 1
        IN  /\ outcome = "sent" /\ IsSome(body)
            /\ IsSome(Outgoing(Get(ArrayField)))
            /\ Get(Outgoing(Get(ArrayField))).t = "array"
            /\ LET new == Get(Outgoing(Get(ArrayField))).a
               IN  /\ Len(new) = Len(old) - 1
                   /\ \A j \in DOMAIN new : new[j] = IF j < i THEN old[j] ELSE old[j + 1]
            /\ SameExceptAt(Get(body), entityNonNull, Get(ArrayField))

C21_Witness ==
    /\ RemoveInRange
    /\ Len(SnapshotArray(Get(ArrayField))) >= 2
    /\ NumeralValue(RemoveIndex) = 0
    /\ outcome = "sent"

(***************************************************************************)
(* C22.  An action that reached the store sent exactly one request, also   *)
(* after a rejection or a network error; when the store rejected it, the   *)
(* result is a failure whose message is the error of the store unchanged,  *)
(* or 'Request failed (status)' when the store gave none.                  *)
(***************************************************************************)
StoreRejected == IsSome(response) /\ Get(response).kind = "reject"

C22_RejectionSurfacedVerbatimNoRetry ==
    /\ outcome = "sent" => fetches = 1
    /\ outcome # "sent" => fetches = 0
    /\ StoreRejected =>
           /\ IsSome(result) /\ ~Get(result).ok
           /\ Get(result).message =
                  IF IsSome(Get(response).error) THEN Get(Get(response).error)
                  ELSE <<"Request failed (", Get(response).status, ")">>

\* the same for the actions that write an entity; deleteAction names its own
\* generic message
C22_WriteRejectionSurfacedVerbatimNoRetry ==
    /\ outcome = "sent" => fetches = 1
    /\ outcome # "sent" => fetches = 0
    /\ StoreRejected =>
           /\ IsSome(result) /\ ~Get(result).ok
           /\ Get(result).message =
                  IF IsSome(Get(response).error) THEN Get(Get(response).error)
                  ELSE IF op = "delete"
                  THEN <<"Delete failed (", Get(response).status, ")">>
                  ELSE <<"Request failed (", Get(response).status, ")">>

C22_Witness ==
    /\ op = "submit" /\ StoreRejected
    /\ Get(response).error = Some(<<"Validation failed">>)
    /\ Get(result).message = <<"Validation failed">>
    /\ fetches = 1

(***************************************************************************)
(* C23.  Two clients hold the same snapshot and each submits an edit of a  *)
(* different allowed field, each request acceptable to the store on its    *)
(* own.  Both submissions succeed, the store holds what the later request  *)
(* wrote, and the field only the earlier request edited holds the value of *)
(* the later client's snapshot.                                            *)
(***************************************************************************)
EditedField(i) == served[i].request[1].name

\* the store holds, in every field the endpoint merges, the value of b
WrittenBy(b) ==
    /\ \A k \in {K("name"), K("employees")} : companies.o[k] = b.o[k]
    /\ \A a \in DOMAIN companies.o[K("address")].o \ {K("id")} :
           companies.o[K("address")].o[a] = b.o[K("address")].o[a]

TwoEdits ==
    /\ Len(served) >= 2
    /\ EditedField(1) # EditedField(2)
    /\ \A i \in {1, 2} :
           /\ SchemaPathOf(EditedField(i)) \in AllowSet
           /\ partialAccepts(ServerUpdateCompanySchema, served[i].body)

C23_LastWriteWins ==
    TwoEdits =>
        /\ served[1].ok /\ served[2].ok
        /\ Len(served) = 2 => WrittenBy(served[2].body)
        /\ Len(served) = 2 =>
               Follow(companies, toPathArray(EditedField(1)))
                   = Follow(entityNonNull, toPathArray(EditedField(1)))

C23_Witness ==
    /\ TwoEdits /\ Len(served) = 2
    /\ EditedField(1) = Dot(Root, "name")
    /\ EditedField(2) = Dot(Dot(Root, "address"), "street1")
    /\ companies.o[K("name")] = Str("Analytical Engines Inc.")
    /\ companies.o[K("address")].o[K("street1")] = Str("2 Main St")

(***************************************************************************)
(* Vocabulary of the FormShell claims.                                     *)
(***************************************************************************)
\* handleSubmit has handled a submit event on this page
Submitted == IsSome(submitter)
\* ... and the handler it invoked resolved with ok: true
ActionSucceeded == Submitted /\ Len(invoked) = 1 /\ IsSome(result) /\ Get(result).ok
\* ... and the handler it invoked resolved with ok: false, or threw
ActionFailed ==
    Submitted /\ Len(invoked) = 1 /\ (IsNone(result) \/ ~Get(result).ok)

Shows(message, severity) ==
    IsSome(snack) /\ Get(snack).message = message /\ Get(snack).severity = severity

(***************************************************************************)
(* C24.  When the handler a submit event invoked resolves with ok: true,   *)
(* the snack is a success snack with the message of the result, the same   *)
(* message is stored under form_success, and the reload is under way.      *)
(***************************************************************************)
C24_SuccessShownAndPersistedBeforeReload ==
    ActionSucceeded =>
        /\ Shows(Get(result).message, "success")
        /\ sessionStorage = Some(Get(result).message)
        /\ page = "loading"

C24_Witness ==
    /\ ActionSucceeded
    /\ invoked = <<"submitAction">>
    /\ Get(result).message = <<"Action successful">>
    /\ Get(snack).open
    /\ sessionStorage = Some(<<"Action successful">>)

(***************************************************************************)
(* C28.  For each submit event handleSubmit invokes exactly one handler,   *)
(* the one the formaction of the submitter names (?/delete deleteAction,   *)
(* ?/arrayAdd arrayAddAction, ?/arrayRemove arrayRemoveAction, otherwise   *)
(* submitAction); a click on a delete or array button never invokes        *)
(* submitAction; and a success is reported only if a handler was invoked.  *)
(***************************************************************************)
NamedHandler(fa) ==
    IF includes(fa, "?/delete") THEN "deleteAction"
    ELSE IF includes(fa, "?/arrayAdd") THEN "arrayAddAction"
    ELSE IF includes(fa, "?/arrayRemove") THEN "arrayRemoveAction"
    ELSE "submitAction"

SuccessReported ==
    \/ IsSome(snack) /\ Get(snack).severity = "success"
    \/ IsSome(sessionStorage)

C28_ExactlyOneHandlerPerSubmit ==
    Submitted =>
        /\ invoked = <<NamedHandler(Get(submitter))>>
        /\ SuccessReported => Len(invoked) = 1

(***************************************************************************)
(* C29.  form_success is written and the page reloaded only when the       *)
(* handler a submit event invoked returned ok: true; when it returned      *)
(* ok: false or threw, the snack is an error snack with the failure        *)
(* message, nothing is stored under form_success and no reload is under    *)
(* way.                                                                    *)
(***************************************************************************)
FailureMessage == IF IsSome(result) THEN Get(result).message ELSE Get(caught)

C30_PersistedMessageShownOnce ==
    /\ [][(page = "loading" /\ page' = "mounted") =>
              /\ sessionStorage' = None
              /\ snack' = IF IsSome(sessionStorage)
                          THEN Some(Snack(Get(sessionStorage), "success"))
                          ELSE None]_vars
    /\ [](page = "mounted" => sessionStorage = None)

C30_Witness ==
    /\ page = "mounted" /\ ~Submitted
    /\ Shows(<<"Item removed successfully">>, "success")
    /\ sessionStorage = None

(***************************************************************************)
(* C25.  A builder builds any number of FormViews.  Each FormView carries, *)
(* when built, the title, schema and allowFields of the builder and one of *)
(* the entities given; no later step of the builder (a further build,      *)
(* forUpdateCommand, submit, delete) changes a FormView built before.      *)
(***************************************************************************)
C25_BuiltViewsKeepTheirSpec ==
    [][/\ \A i \in DOMAIN views : i \in DOMAIN views' /\ views'[i] = views[i]
       /\ Len(views') > Len(views) =>
              LET v == views'[Len(views')]
              IN  /\ Len(views') = Len(views) + 1
                  /\ v.spec.title = titleText
                  /\ v.spec.schema = schema
                  /\ v.spec.allowFields = allowFields
                  /\ v.spec.url = updateUrl
                  /\ v.spec.deleteAction = builderDeleteAction
                  /\ v.entity \in EntitiesOf(schema)]_vars

C25_Witness ==
    /\ Len(views) = 2
    /\ views[1].entity = Ada /\ views[2].entity = Bob
    /\ views[1].spec.allowFields = <<>> /\ views[2].spec.allowFields = <<Dot(Root, "fullName")>>
    /\ views[1].spec.title = views[2].spec.title
    /\ views[2].spec.deleteAction = None /\ IsSome(builderDeleteAction)
    /\ views[2].spec.url = <<"#">> /\ updateUrl # <<"#">>

(***************************************************************************)
(* C26.  Every control the renderer emits (inputs of top-level and nested  *)
(* fields, the buttons of an array, the inputs of array elements named     *)
(* with concrete indices) is enabled exactly when submitAction accepts a   *)
(* posted pair of that name under the same allowFields.                    *)
(***************************************************************************)
C26_RendererAgreesWithSubmitFilter ==
    Rendered =>
        \A c \in Controls :
            (~c.disabled) <=> isFieldAllowed(specNonNull.allowFields, c.name)

(***************************************************************************)
(* C27.  An edit submitAction accepts whose name addresses an element of   *)
(* an array of strings, as the renderer names it ($.tags[1]), replaces     *)
(* exactly that element in the entity sent: the other elements and the     *)
(* length of the array stay as they are.                                   *)
(***************************************************************************)
ElementName == request[1].name
ElementArray == SubSeq(ElementName, 1, Len(ElementName) - 3)
ElementIndex == DigitValue(ElementName[Len(ElementName) - 1])

ElementEdit ==
    /\ op = "submit" /\ Len(request) = 1 /\ log = <<"set">>
    /\ Len(ElementName) > 3
    /\ ElementName[Len(ElementName) - 2] = "["
    /\ ElementName[Len(ElementName) - 1] \in Digits
    /\ ElementName[Len(ElementName)] = "]"
    /\ \E c \in Controls : c.kind = "input" /\ c.name = ElementName
    /\ AddressesArray(entityNonNull, ElementArray)
    /\ ElementIndex < Len(SnapshotArray(ElementArray))
    /\ \A j \in DOMAIN SnapshotArray(ElementArray) : SnapshotArray(ElementArray)[j].t = "string"

C27_ElementEditReplacesElement ==
    ElementEdit =>
        /\ outcome = "sent"
        /\ AddressesArray(Get(body), ElementArray)
        /\ LET old == SnapshotArray(ElementArray)
               new == Get(Outgoing(ElementArray)).a
           IN  /\ Len(new) = Len(old)
               /\ \A j \in DOMAIN old :
                      new[j] = IF j = ElementIndex + 1 THEN JStr(request[1].value)
                               ELSE old[j]
====
